---- MODULE Spec2Model ----
(***************************************************************************)
(* markdownlang: the execution engine of src/src/runner.ts (schema         *)
(* normalisation, the agentic loop, the tool bridge) and the template      *)
(* renderer and program loader of src/src/parser.ts.                       *)
(*                                                                         *)
(* Texts are TLA+ strings; a character is a string of length one, taken    *)
(* with SubSeq.  JavaScript values are tagged records.                     *)
(***************************************************************************)
EXTENDS Integers, Sequences, FiniteSets, TLC

VARIABLES
    runs,       \* every run invocation so far, by id: its frame and its history
    extras,     \* how many answers off the plain script the provider has given
    callers,    \* how many top-level invocations of run have been made
    schema,     \* normalizer harness: the schema handed to prepareSchemaForStrictMode
    strict,     \* normalizer harness: what prepareSchemaForStrictMode returned
    nesting,    \* normalizer harness: the height of the schema tree built so far
    pieces,     \* renderer harness: how many pieces the template is made of
    template,   \* renderer harness: the body handed to renderTemplate
    data,       \* renderer harness: the bindings handed to renderTemplate
    rendered,   \* renderer harness: what renderTemplate returned
    cli         \* the process of the command line: its arguments, output and exit

vars ==
    <<runs, extras, callers, schema, strict, nesting, pieces, template, data, rendered, cli>>

engineVars == <<runs, extras, callers>>
normalizeVars == <<schema, strict, nesting>>
renderVars == <<pieces, template, data, rendered>>
cliVars == <<cli>>

(***************************************************************************)
(* JavaScript values                                                       *)
(***************************************************************************)
Undefined == [t |-> "undefined"]
Null == [t |-> "null"]
Bool(b) == [t |-> "boolean", b |-> b]
Num(n) == [t |-> "number", n |-> n]
Str(s) == [t |-> "string", s |-> s]
\* an array: its elements in index order
Arr(es) == [t |-> "array", es |-> es]
\* a plain object: its own enumerable properties, <<key, value>>, in property order
Obj(kv) == [t |-> "object", kv |-> kv]
\* a built-in function, as found on Object.prototype
Fn(name) == [t |-> "function", name |-> name]
\* a thrown exception: the error's class, its message, and the source line that raised it
Thrown(name, message, line) ==
    [t |-> "throw", name |-> name, message |-> message, line |-> line]

IsThrown(v) == v.t = "throw"

\* typeof v
TypeOf(v) ==
    CASE v.t \in {"null", "array", "object"} -> "object"
      [] OTHER -> v.t

\* ToBoolean(v): what `!v` and `if (v)` test
Truthy(v) ==
    CASE v.t = "undefined" -> FALSE
      [] v.t = "null" -> FALSE
      [] v.t = "boolean" -> v.b
      [] v.t = "number" -> v.n # 0
      [] v.t = "string" -> v.s # ""
      [] OTHER -> TRUE

\* the character of s at position i (1-based), "" past the end
At(s, i) == IF i >= 1 /\ i <= Len(s) THEN SubSeq(s, i, i) ELSE ""

\* whether the text lit occurs in s at position i
StartsWithAt(s, i, lit) ==
    /\ i >= 1
    /\ i + Len(lit) - 1 <= Len(s)
    /\ SubSeq(s, i, i + Len(lit) - 1) = lit

Digits == "0123456789"

DigitChars == {"0", "1", "2", "3", "4", "5", "6", "7", "8", "9"}

\* the value of a decimal digit character
DigitVal(c) == CHOOSE d \in 0..9 : At(Digits, d + 1) = c

RECURSIVE NatToStr(_)
NatToStr(n) ==
    IF n < 10 THEN At(Digits, n + 1)
    ELSE NatToStr(n \div 10) \o At(Digits, (n % 10) + 1)

\* String(n) for an integer n
NumToStr(n) == IF n < 0 THEN "-" \o NatToStr(-n) ELSE NatToStr(n)

RECURSIVE StringEntries(_, _)
StringEntries(s, i) ==
    IF i > Len(s) THEN <<>>
    ELSE <<<<NatToStr(i - 1), Str(At(s, i))>>>> \o StringEntries(s, i + 1)

\* Object.entries(v) for a value that is neither null nor undefined
ObjectEntries(v) ==
    CASE v.t = "object" -> v.kv
      [] v.t = "array" -> [i \in 1..Len(v.es) |-> <<NatToStr(i - 1), v.es[i]>>]
      [] v.t = "string" -> StringEntries(v.s, 1)
      [] OTHER -> <<>>

\* the keys of a sequence of entries
KeysOf(entries) == [i \in 1..Len(entries) |-> entries[i][1]]

\* Object.keys(v)
ObjectKeys(v) == KeysOf(ObjectEntries(v))

HasOwn(o, key) == \E i \in 1..Len(o.kv) : o.kv[i][1] = key

\* o[key] on a plain object for a key Object.prototype does not define
Get(o, key) ==
    IF o.t = "object" /\ HasOwn(o, key)
    THEN o.kv[CHOOSE i \in 1..Len(o.kv) : o.kv[i][1] = key][2]
    ELSE Undefined

\* o[key] = v: an existing property keeps its place, a new one goes last
Put(o, key, v) ==
    IF HasOwn(o, key)
    THEN Obj([i \in 1..Len(o.kv) |->
                 IF o.kv[i][1] = key THEN <<key, v>> ELSE o.kv[i]])
    ELSE Obj(Append(o.kv, <<key, v>>))

(***************************************************************************)
(* JSON.stringify and JSON.parse                                           *)
(***************************************************************************)
\* the JSON escape of one character of a string
EscapeChar(c) ==
    CASE c = "\"" -> "\\\""
      [] c = "\\" -> "\\\\"
      [] c = "\n" -> "\\n"
      [] c = "\t" -> "\\t"
      [] c = "\r" -> "\\r"
      [] OTHER -> c

RECURSIVE QuoteChars(_, _)
QuoteChars(s, i) ==
    IF i > Len(s) THEN ""
    ELSE EscapeChar(At(s, i)) \o QuoteChars(s, i + 1)

\* the JSON text of a string
Quote(s) == "\"" \o QuoteChars(s, 1) \o "\""

RECURSIVE JSONStringify(_)
RECURSIVE StringifyElements(_, _)
RECURSIVE StringifyMembers(_, _, _)

\* one element of an array: undefined and functions are written as null
StringifyElement(v) ==
    IF v.t \in {"undefined", "function"} THEN "null" ELSE JSONStringify(v).s

\* the elements of an array from index i on, comma separated
StringifyElements(es, i) ==
    IF i > Len(es) THEN ""
    ELSE (IF i > 1 THEN "," ELSE "")
         \o StringifyElement(es[i]) \o StringifyElements(es, i + 1)

\* the members of an object from position i on; members whose value is
\* undefined or a function are left out
StringifyMembers(kv, i, first) ==
    IF i > Len(kv) THEN ""
    ELSE IF kv[i][2].t \in {"undefined", "function"}
         THEN StringifyMembers(kv, i + 1, first)
         ELSE (IF first THEN "" ELSE ",")
              \o Quote(kv[i][1]) \o ":" \o JSONStringify(kv[i][2]).s
              \o StringifyMembers(kv, i + 1, FALSE)

\* JSON.stringify(v): a string value, or undefined for undefined and functions
JSONStringify(v) ==
    CASE v.t = "null" -> Str("null")
      [] v.t = "boolean" -> Str(IF v.b THEN "true" ELSE "false")
      [] v.t = "number" -> Str(NumToStr(v.n))
      [] v.t = "string" -> Str(Quote(v.s))
      [] v.t = "array" -> Str("[" \o StringifyElements(v.es, 1) \o "]")
      [] v.t = "object" -> Str("{" \o StringifyMembers(v.kv, 1, TRUE) \o "}")
      [] OTHER -> Undefined

JsonWhitespace == {" ", "\n", "\t", "\r"}

RECURSIVE SkipWs(_, _)
SkipWs(s, i) == IF At(s, i) \in JsonWhitespace THEN SkipWs(s, i + 1) ELSE i

NoParse == [ok |-> FALSE]
Parsed(v, i) == [ok |-> TRUE, v |-> v, i |-> i]

\* the digits of a number from position i on, n being the value read so far
RECURSIVE ParseDigits(_, _, _)
ParseDigits(s, i, n) ==
    IF At(s, i) \in DigitChars
    THEN ParseDigits(s, i + 1, 10 * n + DigitVal(At(s, i)))
    ELSE Parsed(n, i)

\* the number whose digits r were read, negated if neg
SignedNumber(neg, r) == Parsed(Num(IF neg THEN 0 - r.v ELSE r.v), r.i)

\* an unsigned integer literal at position j: 0 | [1-9][0-9]*
ParseUnsigned(s, j, neg) ==
    IF At(s, j) \notin DigitChars THEN NoParse
    ELSE IF At(s, j) = "0"
         THEN IF At(s, j + 1) \in DigitChars THEN NoParse
              ELSE Parsed(Num(0), j + 1)
         ELSE SignedNumber(neg, ParseDigits(s, j, 0))

\* an integer literal at position i; fractions and exponents are not in the
\* model's texts
ParseNumber(s, i) ==
    IF At(s, i) = "-" THEN ParseUnsigned(s, i + 1, TRUE)
    ELSE ParseUnsigned(s, i, FALSE)

\* the character an escape sequence \d stands for, "" if the model has none
Unescape(d) ==
    CASE d = "\"" -> "\""
      [] d = "\\" -> "\\"
      [] d = "/" -> "/"
      [] d = "n" -> "\n"
      [] d = "t" -> "\t"
      [] d = "r" -> "\r"
      [] OTHER -> ""

\* the characters of a string literal after its opening quote, acc being the
\* text read so far; escapes other than \" \\ \/ \n \t \r are not in the
\* model's texts
RECURSIVE ParseStringBody(_, _, _)
ParseStringBody(s, i, acc) ==
    IF At(s, i) = "" \/ At(s, i) \in {"\n", "\t", "\r"} THEN NoParse
    ELSE IF At(s, i) = "\"" THEN Parsed(acc, i + 1)
    ELSE IF At(s, i) = "\\"
         THEN IF Unescape(At(s, i + 1)) = "" THEN NoParse
              ELSE ParseStringBody(s, i + 2, acc \o Unescape(At(s, i + 1)))
    ELSE ParseStringBody(s, i + 1, acc \o At(s, i))

\* a string literal whose opening quote is at position j
ParseString(s, j) == ParseStringBody(s, j + 1, "")

\* the parse r of a string literal, as a string value
AsStringValue(r) == IF r.ok THEN Parsed(Str(r.v), r.i) ELSE NoParse

RECURSIVE ParseValue(_, _)
RECURSIVE ParseElements(_, _, _)
RECURSIVE ParseMembers(_, _, _)

\* after the elements es, at position j: a comma, or the closing bracket
ElementsNext(s, es, j) ==
    IF At(s, j) = "," THEN ParseElements(s, j + 1, es)
    ELSE IF At(s, j) = "]" THEN Parsed(Arr(es), j + 1)
    ELSE NoParse

\* the element parse r added to acc
ElementParsed(s, acc, r) ==
    IF ~r.ok THEN NoParse
    ELSE ElementsNext(s, Append(acc, r.v), SkipWs(s, r.i))

\* the elements of an array, position i being at the start of an element
ParseElements(s, i, acc) == ElementParsed(s, acc, ParseValue(s, i))

\* after the members of o, at position e: a comma, or the closing brace
MembersNext(s, o, e) ==
    IF At(s, e) = "," THEN ParseMembers(s, e + 1, o)
    ELSE IF At(s, e) = "}" THEN Parsed(o, e + 1)
    ELSE NoParse

\* the member key: r added to acc; a repeated key overwrites the earlier value
MemberParsed(s, acc, key, r) ==
    IF ~r.ok THEN NoParse
    ELSE MembersNext(s, Put(acc, key, r.v), SkipWs(s, r.i))

\* after a member's key, at position c: the colon and the value
MemberColon(s, acc, key, c) ==
    IF At(s, c) # ":" THEN NoParse
    ELSE MemberParsed(s, acc, key, ParseValue(s, c + 1))

\* the parse k of a member's key
MemberKey(s, acc, k) ==
    IF ~k.ok THEN NoParse
    ELSE MemberColon(s, acc, k.v, SkipWs(s, k.i))

\* a member at position j, whitespace skipped
MemberAt(s, acc, j) ==
    IF At(s, j) # "\"" THEN NoParse
    ELSE MemberKey(s, acc, ParseString(s, j))

\* the members of an object, position i being before a member's key
ParseMembers(s, i, acc) == MemberAt(s, acc, SkipWs(s, i))

\* after an opening brace, at position k
ObjectBody(s, k) ==
    IF At(s, k) = "}" THEN Parsed(Obj(<<>>), k + 1)
    ELSE ParseMembers(s, k, Obj(<<>>))

\* after an opening bracket, at position k
ArrayBody(s, k) ==
    IF At(s, k) = "]" THEN Parsed(Arr(<<>>), k + 1)
    ELSE ParseElements(s, k, <<>>)

\* one JSON value at position j, whitespace skipped
ValueAt(s, j) ==
    CASE At(s, j) = "{" -> ObjectBody(s, SkipWs(s, j + 1))
      [] At(s, j) = "[" -> ArrayBody(s, SkipWs(s, j + 1))
      [] At(s, j) = "\"" -> AsStringValue(ParseString(s, j))
      [] At(s, j) = "-" \/ At(s, j) \in DigitChars -> ParseNumber(s, j)
      [] StartsWithAt(s, j, "true") -> Parsed(Bool(TRUE), j + 4)
      [] StartsWithAt(s, j, "false") -> Parsed(Bool(FALSE), j + 5)
      [] StartsWithAt(s, j, "null") -> Parsed(Null, j + 4)
      [] OTHER -> NoParse

\* one JSON value at position i, leading whitespace skipped
ParseValue(s, i) == ValueAt(s, SkipWs(s, i))

\* the parse r of the whole text
WholeText(text, r, line) ==
    IF r.ok /\ SkipWs(text, r.i) = Len(text) + 1 THEN r.v
    ELSE Thrown("SyntaxError", "JSON.parse: " \o text, line)

\* JSON.parse(text), called at source line `line`: the value, or a thrown SyntaxError
JSONParse(text, line) == WholeText(text, ParseValue(text, 1), line)

(***************************************************************************)
(* Schema normalizer: prepareSchemaForStrictMode                           *)
(***************************************************************************)
supportedKeys ==
    {"type", "properties", "required", "items", "description", "enum",
     "const", "anyOf", "oneOf", "$ref", "$defs", "additionalProperties"}

CopySupported_Everything(s) == Obj(ObjectEntries(s))

\* the copy loop: the entries of schema whose key is supported, in order
CopySupported(s) ==
    Obj(SelectSeq(ObjectEntries(s), LAMBDA e : e[1] \in supportedKeys))

\* the guard of the object step
IsObjectWithProperties(result) ==
    Get(result, "type") = Str("object") /\ Truthy(Get(result, "properties"))

\* the array of the strings keys
StringArray(keys) == Arr([i \in 1..Len(keys) |-> Str(keys[i])])

SetRequired_Appending(result) ==
    IF Get(result, "required").t = "array"
    THEN Put(result, "required",
             Arr(Get(result, "required").es
                 \o StringArray(ObjectKeys(Get(result, "properties"))).es))
    ELSE Put(result, "required", StringArray(ObjectKeys(Get(result, "properties"))))

\* result.required = Object.keys(result.properties)
SetRequired(result) ==
    Put(result, "required", StringArray(ObjectKeys(Get(result, "properties"))))

SetAdditionalProperties_KeepExisting(result) ==
    IF HasOwn(result, "additionalProperties") THEN result
    ELSE Put(result, "additionalProperties", Bool(FALSE))

\* result.additionalProperties = false
SetAdditionalProperties(result) == Put(result, "additionalProperties", Bool(FALSE))

\* the guard of the array step
IsArrayWithItems(result) ==
    Get(result, "type") = Str("array") /\ Truthy(Get(result, "items"))

\* the guard of the anyOf step
HasAnyOf(result) == Truthy(Get(result, "anyOf"))

\* the first thrown value among the values of a sequence of entries
FirstThrown(entries) ==
    entries[CHOOSE i \in 1..Len(entries) :
                /\ IsThrown(entries[i][2])
                /\ \A j \in 1..(i - 1) : ~IsThrown(entries[j][2])][2]

AnyThrown(entries) == \E i \in 1..Len(entries) : IsThrown(entries[i][2])

RECURSIVE prepareSchemaForStrictMode(_)

\* each entry with its value normalised, in order
PrepareEntries(entries) ==
    [i \in 1..Len(entries) |->
        <<entries[i][1], prepareSchemaForStrictMode(entries[i][2])>>]

\* result.properties = newProps
SetProperties(result, newProps) ==
    IF AnyThrown(newProps) THEN FirstThrown(newProps)
    ELSE Put(result, "properties", Obj(newProps))

\* if (result.type === "object" && result.properties) { ... }
ObjectStep(result) ==
    IF ~IsObjectWithProperties(result) THEN result
    ELSE SetProperties(SetAdditionalProperties(SetRequired(result)),
                       PrepareEntries(ObjectEntries(Get(result, "properties"))))

\* result.items = prepareSchemaForStrictMode(result.items)
SetItems(result, items) ==
    IF IsThrown(items) THEN items ELSE Put(result, "items", items)

\* if (result.type === "array" && result.items) { ... }
ArrayStep(result) ==
    IF IsThrown(result) \/ ~IsArrayWithItems(result) THEN result
    ELSE SetItems(result, prepareSchemaForStrictMode(Get(result, "items")))

\* result.anyOf = branches
SetAnyOf(result, branches) ==
    IF AnyThrown(branches) THEN FirstThrown(branches)
    ELSE Put(result, "anyOf", Arr([i \in 1..Len(branches) |-> branches[i][2]]))

\* result.anyOf.map(prepareSchemaForStrictMode): only an array has map
MapAnyOf(result, anyOf) ==
    IF anyOf.t # "array"
    THEN Thrown("TypeError", "result.anyOf.map is not a function", 61)
    ELSE SetAnyOf(result, PrepareEntries(ObjectEntries(anyOf)))

\* if (result.anyOf) { ... }
AnyOfStep(result) ==
    IF IsThrown(result) \/ ~HasAnyOf(result) THEN result
    ELSE MapAnyOf(result, Get(result, "anyOf"))

prepareSchemaForStrictMode(s) ==
    IF ~Truthy(s) \/ TypeOf(s) # "object" THEN s
    ELSE AnyOfStep(ArrayStep(ObjectStep(CopySupported(s))))

(***************************************************************************)
(* The normalizer on a bounded family of schema trees                      *)
(***************************************************************************)
\* how deep the trees are built
MaxNesting == 3

\* the harness has not called the function yet
NotCalled == [t |-> "notcalled"]

\* the process of the command line before the command is given: its
\* arguments, what the action has in hand, the run it awaits, the lines
\* written to the two streams and the exit code (-1 while the process lives)
NotStarted ==
    [pc |-> "idle", file |-> "", opts |-> Undefined, prog |-> Undefined,
     input |-> Undefined, run |-> 0, stdout |-> <<>>, stderr |-> <<>>, code |-> -1]

O2(k1, v1, k2, v2) == Obj(<< <<k1, v1>>, <<k2, v2>> >>)
O3(k1, v1, k2, v2, k3, v3) == Obj(<< <<k1, v1>>, <<k2, v2>>, <<k3, v3>> >>)

\* the trees of height one: well-formed schemas with and without unsupported
\* keywords, and values that are no schema at all
LeafSchemas ==
    { Obj(<< <<"type", Str("string")>> >>),
      O3("type", Str("integer"), "minimum", Num(0), "description", Str("n")),
      O3("pattern", Str("x"), "type", Str("string"),
         "enum", Arr(<<Str("a"), Str("b")>>)),
      O2("const", Num(1), "maxLength", Num(2)),
      O2("type", Str("object"), "properties", Obj(<<>>)),
      Obj(<< <<"$ref", Str("#/$defs/d")>> >>),
      Obj(<<>>),
      Arr(<<>>),
      Null,
      Num(0),
      Str("ab"),
      Bool(TRUE) }

\* the second member of the two-member wrappings
Sibling == O2("type", Str("integer"), "maximum", Num(9))

\* the schemas that have s as a direct member: under properties (with and
\* without a type, a stale required, a true additionalProperties), items,
\* anyOf, oneOf and $defs, and the malformed shapes
Wrappings(s) ==
    { O2("type", Str("object"), "properties", O2("a", s, "b", Sibling)),
      Obj(<< <<"required", Arr(<<Str("z")>>)>>,
             <<"additionalProperties", Bool(TRUE)>>,
             <<"minProperties", Num(1)>>,
             <<"properties", O2("b", Sibling, "a", s)>>,
             <<"type", Str("object")>> >>),
      Obj(<< <<"properties", Obj(<< <<"a", s>> >>)>> >>),
      O3("type", Str("array"), "minItems", Num(1), "items", s),
      O2("type", Str("object"), "items", s),
      Obj(<< <<"anyOf", Arr(<<s, Sibling>>)>> >>),
      O2("description", Str("d"), "oneOf", Arr(<<s>>)),
      O2("$defs", Obj(<< <<"d", s>> >>), "$ref", Str("#/$defs/d")),
      O2("type", Str("object"), "properties", Arr(<<s>>)),
      O2("type", Str("object"), "properties", s),
      Obj(<< <<"anyOf", s>> >>) }

InitNormalize ==
    /\ schema \in LeafSchemas
    /\ strict = NotCalled
    /\ nesting = 1
    /\ runs = <<>> /\ extras = 0 /\ callers = 0
    /\ pieces = 0 /\ template = "" /\ data = Undefined /\ rendered = NotCalled
    /\ cli = NotStarted

\* a bigger tree around the current one
Grow ==
    /\ nesting < MaxNesting
    /\ schema' \in Wrappings(schema)
    /\ nesting' = nesting + 1
    /\ strict' = NotCalled
    /\ UNCHANGED <<engineVars, renderVars, cliVars>>

\* the call prepareSchemaForStrictMode(schema)
Normalize ==
    /\ strict = NotCalled
    /\ strict' = prepareSchemaForStrictMode(schema)
    /\ UNCHANGED <<schema, nesting, engineVars, renderVars, cliVars>>

NextNormalize == Grow \/ Normalize

SpecNormalize == InitNormalize /\ [][NextNormalize]_vars

(***************************************************************************)
(* Template renderer: renderTemplate                                       *)
(***************************************************************************)
\* \w
WordChars ==
    {"a", "b", "c", "d", "e", "f", "g", "h", "i", "j", "k", "l", "m",
     "n", "o", "p", "q", "r", "s", "t", "u", "v", "w", "x", "y", "z",
     "A", "B", "C", "D", "E", "F", "G", "H", "I", "J", "K", "L", "M",
     "N", "O", "P", "Q", "R", "S", "T", "U", "V", "W", "X", "Y", "Z",
     "0", "1", "2", "3", "4", "5", "6", "7", "8", "9", "_"}

\* \s, as far as TLA+ strings can spell it
SpaceChars == {" ", "\t", "\n", "\r", "\f"}

\* the first position from i on whose character is not in class: what a
\* greedy class* consumes
RECURSIVE SkipClass(_, _, _)
SkipClass(s, i, class) ==
    IF At(s, i) \in class THEN SkipClass(s, i + 1, class) ELSE i

NoMatch == [found |-> FALSE]

\* \}\} at position c closes the match of key that began at i
MatchClose(s, i, key, c) ==
    IF StartsWithAt(s, c, "}}")
    THEN [found |-> TRUE, key |-> key, match |-> SubSeq(s, i, c + 1), end |-> c + 2]
    ELSE NoMatch

\* (\w+) from k up to e, then \s*
MatchKey(s, i, k, e) ==
    IF e = k THEN NoMatch
    ELSE MatchClose(s, i, SubSeq(s, k, e - 1), SkipClass(s, e, SpaceChars))

\* \. at position d
MatchDot(s, i, d) ==
    IF At(s, d) # "." THEN NoMatch
    ELSE MatchKey(s, i, d + 1, SkipClass(s, d + 1, WordChars))

\* the match of /\{\{\s*\.(\w+)\s*\}\}/ that starts at position i
MatchAt(s, i) ==
    IF ~StartsWithAt(s, i, "{{") THEN NoMatch
    ELSE MatchDot(s, i, SkipClass(s, i + 2, SpaceChars))

\* the properties every plain object inherits from Object.prototype
ObjectPrototypeKeys ==
    {"constructor", "hasOwnProperty", "isPrototypeOf", "propertyIsEnumerable",
     "toLocaleString", "toString", "valueOf", "__proto__",
     "__defineGetter__", "__defineSetter__", "__lookupGetter__", "__lookupSetter__"}

\* Object.prototype[key]
ObjectPrototypeValue(key) ==
    CASE key = "__proto__" -> Obj(<<>>)
      [] key = "constructor" -> Fn("Object")
      [] OTHER -> Fn(key)

\* the properties an array has besides its elements
ArrayPrototypeKeys ==
    {"length", "at", "concat", "copyWithin", "entries", "every", "fill", "filter",
     "find", "findIndex", "findLast", "findLastIndex", "flat", "flatMap",
     "forEach", "includes", "indexOf", "join", "keys", "lastIndexOf", "map",
     "pop", "push", "reduce", "reduceRight", "reverse", "shift", "slice",
     "some", "sort", "splice", "unshift", "values"}

\* whether `key in data` raises: the operator wants an object on its right
InThrows(d) == d.t \notin {"object", "array"}

\* key in data, for an object or an array: own and inherited properties
In(key, d) ==
    \/ key \in ObjectPrototypeKeys
    \/ d.t = "object" /\ HasOwn(d, key)
    \/ d.t = "array" /\ key \in ArrayPrototypeKeys
    \/ d.t = "array" /\ \E i \in 1..Len(d.es) : NatToStr(i - 1) = key

\* data[key] for a key that is in data
Lookup(d, key) ==
    CASE d.t = "object" /\ HasOwn(d, key) -> Get(d, key)
      [] d.t = "array" /\ key = "length" -> Num(Len(d.es))
      [] d.t = "array" /\ key \in ArrayPrototypeKeys -> Fn(key)
      [] d.t = "array" /\ key \notin ObjectPrototypeKeys ->
             d.es[CHOOSE i \in 1..Len(d.es) : NatToStr(i - 1) = key]
      [] OTHER -> ObjectPrototypeValue(key)

RECURSIVE StringOf(_)
RECURSIVE JoinFrom(_, _)

\* Array.prototype.join from element i on: null and undefined give nothing
JoinFrom(es, i) ==
    IF i > Len(es) THEN ""
    ELSE (IF i > 1 THEN "," ELSE "")
         \o (IF es[i].t \in {"null", "undefined"} THEN "" ELSE StringOf(es[i]))
         \o JoinFrom(es, i + 1)

\* String(v)
StringOf(v) ==
    CASE v.t = "string" -> v.s
      [] v.t = "number" -> NumToStr(v.n)
      [] v.t = "boolean" -> IF v.b THEN "true" ELSE "false"
      [] v.t = "function" -> "function " \o v.name \o "() { [native code] }"
      [] v.t = "undefined" -> "undefined"
      [] v.t = "null" -> "null"
      [] v.t = "array" -> JoinFrom(v.es, 1)
      [] OTHER -> "[object Object]"

\* typeof value === "object" ? JSON.stringify(value) : String(value)
ValueText(value) ==
    IF TypeOf(value) = "object" THEN JSONStringify(value).s ELSE StringOf(value)

\* the replacer callback: the text that takes the place of the match m
Replacer(m, d) ==
    IF InThrows(d)
    THEN Thrown("TypeError",
                "Cannot use 'in' operator to search for '" \o m.key \o "'", 91)
    ELSE IF In(m.key, d) THEN Str(ValueText(Lookup(d, m.key)))
    ELSE Str(m.match)

\* a piece of output followed by the rest, a thrown exception winning
Joined(first, rest) ==
    IF IsThrown(first) THEN first
    ELSE IF IsThrown(rest) THEN rest
    ELSE Str(first.s \o rest.s)

RECURSIVE ReplaceFrom(_, _, _)

\* the inserted text is scanned again where it opens a token
Rescanned(text, m, d) ==
    IF IsThrown(text) \/ text = Str(m.match) \/ ~StartsWithAt(text.s, 1, "{{") THEN text
    ELSE ReplaceFrom(text.s, 1, d)

ReplaceStep_Rescanning(s, i, d, m) ==
    IF m.found
    THEN Joined(Rescanned(Replacer(m, d), m, d), ReplaceFrom(s, m.end, d))
    ELSE Joined(Str(At(s, i)), ReplaceFrom(s, i + 1, d))

\* one step of the global replace at position i, m being the match there: a
\* match is replaced and the scan goes on after it, any other character is
\* copied
ReplaceStep(s, i, d, m) ==
    IF m.found
    THEN Joined(Replacer(m, d), ReplaceFrom(s, m.end, d))
    ELSE Joined(Str(At(s, i)), ReplaceFrom(s, i + 1, d))

\* String.prototype.replace with the global pattern, from position i on
ReplaceFrom(s, i, d) ==
    IF i > Len(s) THEN Str("")
    ELSE ReplaceStep(s, i, d, MatchAt(s, i))

\* renderTemplate(template, data): a string value, or what the callback threw
renderTemplate(body, d) == ReplaceFrom(body, 1, d)

(***************************************************************************)
(* The renderer on a bounded family of bodies and bindings                 *)
(***************************************************************************)
\* how many pieces a body is made of
MaxPieces == 3

\* what bodies are made of: tokens, halves of tokens and plain text
Pieces ==
    {"{{.x}}", "{{ .y\n}}", "{{.toString}}", "{{", "}}", ".x", " ", "{", "a and "}

\* the bindings: empty, a scalar, a text that holds a token, an array, an
\* object, null, and an own property that hides an inherited one
Bindings ==
    { Obj(<<>>),
      Obj(<< <<"x", Num(3)>> >>),
      O2("x", Str("{{ .y\n}}"), "y", Arr(<<Num(1), Num(2)>>)),
      O3("y", Obj(<< <<"k", Null>> >>), "toString", Bool(TRUE), "x", Null) }

InitRender ==
    /\ pieces = 0
    /\ template = ""
    /\ data \in Bindings
    /\ rendered = NotCalled
    /\ runs = <<>> /\ extras = 0 /\ callers = 0
    /\ schema = Undefined /\ strict = NotCalled /\ nesting = 0
    /\ cli = NotStarted

\* one more piece at the end of the body
Extend ==
    /\ pieces < MaxPieces
    /\ \E p \in Pieces : template' = template \o p
    /\ pieces' = pieces + 1
    /\ rendered' = NotCalled
    /\ UNCHANGED <<data, engineVars, normalizeVars, cliVars>>

\* the call renderTemplate(template, data)
Render ==
    /\ rendered = NotCalled
    /\ rendered' = renderTemplate(template, data)
    /\ UNCHANGED <<pieces, template, data, engineVars, normalizeVars, cliVars>>

NextRender == Extend \/ Render

SpecRender == InitRender /\ [][NextRender]_vars

(***************************************************************************)
(* Program loader: parse, parseSource                                      *)
(***************************************************************************)
\* the working directory path.resolve resolves against
Cwd == "/app"

\* source texts are a frontmatter between two --- lines and a body
Source(frontmatter, body) == "---\n" \o frontmatter \o "\n---\n\n" \o body \o "\n"

MainFrontmatter ==
    "name: main\ndescription: Adds two numbers.\ninput: {type: object}\n"
    \o "output: {type: object, properties: {sum: {type: number}}}\n"
    \o "imports: [lib/loop.mdlang, lib/leaf.mdlang, /app/lib/broken.mdlang]"

LoopFrontmatter ==
    "name: loop\ndescription: Counts down.\n"
    \o "input: {type: object, properties: {n: {type: number}}}\n"
    \o "output: {type: array, items: {}}\nimports: [lib/loop.mdlang]"

LeafFrontmatter ==
    "name: leaf\ndescription: Says ok.\ninput: {type: object}\n"
    \o "output: {type: object, properties: {ok: {type: boolean}}, minProperties: 1}"

EmptyFrontmatter ==
    "name: empty\ndescription: Picks a number.\ninput: {}\noutput: {type: number}\nimports: []"

BrokenFrontmatter ==
    "name: broken\ndescription: Imports a file that is not there.\n"
    \o "input: {type: object}\noutput: {type: object}\nimports: [lib/gone.mdlang]"

\* the example program of the README: both of its input fields are required
FizzbuzzFrontmatter ==
    "name: fizzbuzz\ndescription: FizzBuzz classic programming exercise\n"
    \o "input:\n  type: object\n  properties:\n    start:\n      type: integer\n"
    \o "    end:\n      type: integer\n  required: [start, end]\n"
    \o "output:\n  type: object\n  properties:\n    results:\n      type: array\n"
    \o "      items:\n        type: string\n  required: [results]"

\* a program whose required input field has the name of an inherited property
DescribeFrontmatter ==
    "name: describe\ndescription: Describes a class.\n"
    \o "input: {type: object, properties: {constructor: {type: string}}, required: [constructor]}\n"
    \o "output: {type: object, properties: {text: {type: string}}}"

\* the files on disk, by absolute path
Files ==
    [p \in {"/app/main.mdlang", "/app/lib/loop.mdlang", "/app/lib/leaf.mdlang",
            "/app/lib/empty.mdlang", "/app/lib/broken.mdlang",
            "/app/fizzbuzz.mdlang", "/app/describe.mdlang"} |->
        CASE p = "/app/main.mdlang" -> Source(MainFrontmatter, "Add {{ .x }} and {{.y}}.")
          [] p = "/app/lib/loop.mdlang" -> Source(LoopFrontmatter, "Count down from {{.n}}.")
          [] p = "/app/lib/leaf.mdlang" -> Source(LeafFrontmatter, "  Say ok.  ")
          [] p = "/app/lib/empty.mdlang" -> Source(EmptyFrontmatter, "Pick a number.")
          [] p = "/app/fizzbuzz.mdlang" ->
                 Source(FizzbuzzFrontmatter, "# FizzBuzz\n\nFrom {{ .start }} to {{ .end }}.")
          [] p = "/app/describe.mdlang" ->
                 Source(DescribeFrontmatter, "Describe {{ .constructor }}.")
          [] OTHER -> Source(BrokenFrontmatter, "Ask the missing tool.")]

TypeObject == Obj(<< <<"type", Str("object")>> >>)

\* yaml.load on the frontmatters of the files above
yamlLoad(text) ==
    CASE text = MainFrontmatter ->
             Obj(<< <<"name", Str("main")>>,
                    <<"description", Str("Adds two numbers.")>>,
                    <<"input", TypeObject>>,
                    <<"output", O2("type", Str("object"), "properties",
                                   Obj(<< <<"sum", Obj(<< <<"type", Str("number")>> >>)>> >>))>>,
                    <<"imports", Arr(<<Str("lib/loop.mdlang"), Str("lib/leaf.mdlang"),
                                       Str("/app/lib/broken.mdlang")>>)>> >>)
      [] text = LoopFrontmatter ->
             Obj(<< <<"name", Str("loop")>>,
                    <<"description", Str("Counts down.")>>,
                    <<"input", O2("type", Str("object"), "properties",
                                  Obj(<< <<"n", Obj(<< <<"type", Str("number")>> >>)>> >>))>>,
                    <<"output", O2("type", Str("array"), "items", Obj(<<>>))>>,
                    <<"imports", Arr(<<Str("lib/loop.mdlang")>>)>> >>)
      [] text = LeafFrontmatter ->
             Obj(<< <<"name", Str("leaf")>>,
                    <<"description", Str("Says ok.")>>,
                    <<"input", TypeObject>>,
                    <<"output", O3("type", Str("object"), "properties",
                                   Obj(<< <<"ok", Obj(<< <<"type", Str("boolean")>> >>)>> >>),
                                   "minProperties", Num(1))>> >>)
      [] text = EmptyFrontmatter ->
             Obj(<< <<"name", Str("empty")>>,
                    <<"description", Str("Picks a number.")>>,
                    <<"input", Obj(<<>>)>>,
                    <<"output", Obj(<< <<"type", Str("number")>> >>)>>,
                    <<"imports", Arr(<<>>)>> >>)
      [] text = BrokenFrontmatter ->
             Obj(<< <<"name", Str("broken")>>,
                    <<"description", Str("Imports a file that is not there.")>>,
                    <<"input", TypeObject>>,
                    <<"output", TypeObject>>,
                    <<"imports", Arr(<<Str("lib/gone.mdlang")>>)>> >>)
      [] text = FizzbuzzFrontmatter ->
             Obj(<< <<"name", Str("fizzbuzz")>>,
                    <<"description", Str("FizzBuzz classic programming exercise")>>,
                    <<"input", O3("type", Str("object"), "properties",
                                  O2("start", Obj(<< <<"type", Str("integer")>> >>),
                                     "end", Obj(<< <<"type", Str("integer")>> >>)),
                                  "required", Arr(<<Str("start"), Str("end")>>))>>,
                    <<"output", O3("type", Str("object"), "properties",
                                   Obj(<< <<"results",
                                           O2("type", Str("array"), "items",
                                              Obj(<< <<"type", Str("string")>> >>))>> >>),
                                   "required", Arr(<<Str("results")>>))>> >>)
      [] text = DescribeFrontmatter ->
             Obj(<< <<"name", Str("describe")>>,
                    <<"description", Str("Describes a class.")>>,
                    <<"input", O3("type", Str("object"), "properties",
                                  Obj(<< <<"constructor",
                                          Obj(<< <<"type", Str("string")>> >>)>> >>),
                                  "required", Arr(<<Str("constructor")>>))>>,
                    <<"output", O2("type", Str("object"), "properties",
                                   Obj(<< <<"text", Obj(<< <<"type", Str("string")>> >>)>> >>))>> >>)
      [] OTHER -> Str(text)

\* String.prototype.trim
RECURSIVE TrimEnd(_, _)
TrimEnd(s, n) == IF At(s, n) \in SpaceChars THEN TrimEnd(s, n - 1) ELSE SubSeq(s, 1, n)

TrimFrom(s, i) == TrimEnd(SubSeq(s, i, Len(s)), Len(s) - i + 1)

Trim(s) == TrimFrom(s, SkipClass(s, 1, SpaceChars))

\* the positions from i on, counted from 0, where lit occurs in s
Occurrences(s, lit, i) == {j \in i..(Len(s) - Len(lit)) : StartsWithAt(s, j + 1, lit)}

Least(S) == IF S = {} THEN -1 ELSE CHOOSE j \in S : \A k \in S : j <= k

\* s.indexOf(lit, i), positions counted from 0
IndexOf(s, lit, i) == Least(Occurrences(s, lit, i))

\* s.slice(a, b) and s.slice(a), positions counted from 0
Slice(s, a, b) == SubSeq(s, a + 1, b)

SliceFrom(s, a) == SubSeq(s, a + 1, Len(s))

RequiredFields == <<"name", "description", "input", "output">>

MissingField(frontmatter, i) == ~In(RequiredFields[i], frontmatter)

Invalid(sourcePath, what, line) ==
    Thrown("Error", "Invalid markdownlang file (" \o sourcePath \o "): " \o what, line)

\* frontmatter.imports.map(String)
MapString(imports) == Arr([i \in 1..Len(imports.es) |-> Str(StringOf(imports.es[i]))])

\* the program built from a loaded frontmatter and a body
Program(frontmatter, body, sourcePath) ==
    [t |-> "program",
     name |-> StringOf(Get(frontmatter, "name")),
     description |-> StringOf(Get(frontmatter, "description")),
     input |-> Get(frontmatter, "input"),
     output |-> Get(frontmatter, "output"),
     imports |-> IF Get(frontmatter, "imports").t = "array"
                 THEN MapString(Get(frontmatter, "imports")) ELSE Undefined,
     body |-> body,
     sourcePath |-> sourcePath]

\* the frontmatter checks and the result
ParseFrontmatter(frontmatter, body, sourcePath) ==
    IF ~Truthy(frontmatter) \/ TypeOf(frontmatter) # "object"
    THEN Invalid(sourcePath, "frontmatter is not a valid YAML object", 55)
    ELSE IF \E i \in 1..4 : MissingField(frontmatter, i)
    THEN Invalid(sourcePath,
                 "missing required field \""
                 \o RequiredFields[CHOOSE i \in 1..4 :
                        /\ MissingField(frontmatter, i)
                        /\ \A j \in 1..(i - 1) : ~MissingField(frontmatter, j)]
                 \o "\" in frontmatter", 63)
    ELSE Program(frontmatter, body, sourcePath)

\* the text cut at the closing ---
ParseDelimited(trimmed, sourcePath, secondDash) ==
    IF secondDash = -1
    THEN Invalid(sourcePath, "missing closing --- for frontmatter", 43)
    ELSE ParseFrontmatter(yamlLoad(Trim(Slice(trimmed, 3, secondDash))),
                          Trim(SliceFrom(trimmed, secondDash + 3)), sourcePath)

ParseTrimmed(trimmed, sourcePath) ==
    IF ~StartsWithAt(trimmed, 1, "---")
    THEN Invalid(sourcePath, "must start with YAML frontmatter delimited by ---", 35)
    ELSE ParseDelimited(trimmed, sourcePath, IndexOf(trimmed, "---", 3))

\* parseSource(source, sourcePath): a program, or what it threw
parseSource(source, sourcePath) == ParseTrimmed(Trim(source), sourcePath)

\* path.resolve(filePath)
Resolve(filePath) ==
    IF StartsWithAt(filePath, 1, "/") THEN filePath ELSE Cwd \o "/" \o filePath

\* fs.readFileSync and parseSource on an absolute path
ParseFile(absolutePath) ==
    IF absolutePath \notin DOMAIN Files
    THEN Thrown("Error", "ENOENT: no such file or directory, open '"
                         \o absolutePath \o "'", 20)
    ELSE parseSource(Files[absolutePath], absolutePath)

\* parse(filePath): a program, or what it threw; every call reads the file
parse(filePath) == ParseFile(Resolve(filePath))

(***************************************************************************)
(* Execution engine: run, resolveImportedTools, executeToolCall            *)
(***************************************************************************)
\* let maxIterations = 10
MaxIterations == 10

IterationLimitExceeded == Thrown("Error", "Agentic loop exceeded maximum iterations", 174)

EmptyResponse == Thrown("Error", "No response content from OpenAI", 160)

UnknownTool(name) == Thrown("Error", "Unknown tool: " \o name, 222)

NoImportsDeclared(name) ==
    Thrown("Error", "No imports defined but tool call received: " \o name, 210)

ToolWith_Unnormalized(imported, parameters) ==
    [t |-> "tool", type |-> "function",
     function |-> [name |-> imported.name,
                   description |-> imported.description,
                   parameters |-> imported.input]]

\* one tool definition, or what its schema threw
ToolWith(imported, parameters) ==
    IF IsThrown(parameters) THEN parameters
    ELSE [t |-> "tool", type |-> "function",
          function |-> [name |-> imported.name,
                        description |-> imported.description,
                        parameters |-> parameters]]

ToolOf(imported) ==
    IF IsThrown(imported) THEN imported
    ELSE ToolWith(imported, prepareSchemaForStrictMode(imported.input))

\* the tools pushed before the loop met its first exception, if any
ToolsOrThrown(tools) ==
    IF \E i \in 1..Len(tools) : IsThrown(tools[i])
    THEN tools[CHOOSE i \in 1..Len(tools) :
                   IsThrown(tools[i]) /\ \A j \in 1..(i - 1) : ~IsThrown(tools[j])]
    ELSE Arr(tools)

\* resolveImportedTools(program): an array of tool definitions, or what the
\* loop threw
resolveImportedTools(program) ==
    IF ~Truthy(program.imports) \/ Len(program.imports.es) = 0 THEN Arr(<<>>)
    ELSE ToolsOrThrown([i \in 1..Len(program.imports.es) |->
                           ToolOf(parse(program.imports.es[i].s))])

\* the system message of a program
SystemMessage(program) ==
    [role |-> "system",
     content |-> "You are executing a markdownlang program called \""
                 \o program.name \o "\". " \o program.description
                 \o " Follow the instructions precisely and return the result as JSON matching the required output schema."
                 \o " Be precise and deterministic. Do not add extra commentary - just return valid JSON."]

UserMessage(prompt) == [role |-> "user", content |-> prompt]

\* options.model ?? "gpt-4o-mini"
ModelOf(options) ==
    IF Get(options, "model").t \in {"undefined", "null"} THEN "gpt-4o-mini"
    ELSE Get(options, "model").s

\* the frame of an invocation of run at its entry
NewRun(program, input, options, parent, forCall) ==
    [t |-> "run",
     parent |-> parent,          \* the run whose tool call this run serves, 0 at the top
     forCall |-> forCall,        \* the identifier of that tool call
     program |-> program,
     input |-> input,
     options |-> options,
     model |-> ModelOf(options),
     prompt |-> "",
     tools |-> <<>>,
     strictSchema |-> Undefined,
     messages |-> <<>>,
     maxIterations |-> MaxIterations,
     pc |-> "entry",             \* entry, loop, awaiting, calls, waiting, returned, failed
     sent |-> <<>>,              \* the requests the provider got from this run, in order
     choice |-> Undefined,       \* response.choices[0].message of the latest response
     k |-> 0,                    \* the position of toolCall in choice.tool_calls, 0 outside the for loop
     child |-> 0,                \* the nested run the for loop awaits
     result |-> Undefined,
     error |-> Undefined,
     logged |-> 0]               \* console.error calls made

\* an exception leaves run
Throw(r, error) == [r EXCEPT !.pc = "failed", !.error = error]

\* lines 96-124: the schema is in hand; the verbose block, the two messages
\* and the loop counter
Seeded(r, strictSchema) ==
    IF IsThrown(strictSchema) THEN Throw(r, strictSchema)
    ELSE [r EXCEPT !.strictSchema = strictSchema,
                   !.logged = IF Truthy(Get(r.options, "verbose")) THEN 4 ELSE 0,
                   !.messages = <<SystemMessage(r.program), UserMessage(r.prompt)>>,
                   !.maxIterations = MaxIterations,
                   !.pc = "loop"]

\* lines 94-96
WithTools(r, tools) ==
    IF IsThrown(tools) THEN Throw(r, tools)
    ELSE Seeded([r EXCEPT !.tools = tools.es],
                prepareSchemaForStrictMode(r.program.output))

\* lines 91-94
WithPrompt(r, prompt) ==
    IF IsThrown(prompt) THEN Throw(r, prompt)
    ELSE WithTools([r EXCEPT !.prompt = prompt.s], resolveImportedTools(r.program))

\* run(program, input, options) from its entry to the head of the loop
run(program, input, options, parent, forCall) ==
    WithPrompt(NewRun(program, input, options, parent, forCall),
               renderTemplate(program.body, input))

LoopContinues_Inclusive(maxIterations) == maxIterations >= 0

\* maxIterations-- > 0, the test on the value before the decrement
LoopContinues(maxIterations) == maxIterations > 0

\* the argument of client.chat.completions.create
Request(r) ==
    IF Len(r.tools) > 0
    THEN [model |-> r.model,
          messages |-> r.messages,
          response_format |->
              [type |-> "json_schema",
               json_schema |-> [name |-> r.program.name, schema |-> r.strictSchema,
                                strict |-> TRUE]],
          tools |-> r.tools]
    ELSE [model |-> r.model,
          messages |-> r.messages,
          response_format |->
              [type |-> "json_schema",
               json_schema |-> [name |-> r.program.name, schema |-> r.strictSchema,
                                strict |-> TRUE]]]

Requested_SharedBudget(r) ==
    [r EXCEPT !.maxIterations = Least({runs[j].maxIterations : j \in DOMAIN runs}) - 1,
              !.sent = Append(@, Request(r)),
              !.pc = "awaiting"]

\* lines 125-138: the loop goes round and the request leaves
Requested(r) ==
    [r EXCEPT !.maxIterations = @ - 1,
              !.sent = Append(@, Request(r)),
              !.pc = "awaiting"]

Exhausted_Spinning(r) == r

\* lines 125 and 174: the loop ends
Exhausted(r) == Throw([r EXCEPT !.maxIterations = @ - 1], IterationLimitExceeded)

\* the toolCall of the for loop
CurrentCall(r) == r.choice.tool_calls.es[r.k]

ToolMessage_ByName(toolCall, toolResult) ==
    [role |-> "tool",
     tool_call_id |-> toolCall.function.name,
     content |-> JSONStringify(toolResult).s]

\* lines 148-152
ToolMessage(toolCall, toolResult) ==
    [role |-> "tool",
     tool_call_id |-> toolCall.id,
     content |-> JSONStringify(toolResult).s]

\* the for loop moves to the next tool call, or `continue` takes the while
\* loop round
NextCall(r) ==
    IF r.k < Len(r.choice.tool_calls.es)
    THEN [r EXCEPT !.k = @ + 1, !.child = 0, !.pc = "calls"]
    ELSE [r EXCEPT !.k = 0, !.child = 0, !.pc = "loop"]

\* lines 147-153: executeToolCall has returned toolResult
AfterToolResult(r, toolResult) ==
    NextCall([r EXCEPT !.messages = Append(@, ToolMessage(CurrentCall(r), toolResult))])

Rethrow_Swallowed(r, error) == AfterToolResult(r, Null)

\* line 147: the awaited executeToolCall has thrown; nothing catches it
Rethrow(r, error) == Throw(r, error)

AwaitCall_Detached(r, child) == NextCall(r)

\* line 147: run waits for the nested run of its tool call
AwaitCall(r, child) == [r EXCEPT !.pc = "waiting", !.child = child]

\* lines 163-171
Returned(r, result) ==
    IF IsThrown(result) THEN Throw(r, result)
    ELSE [r EXCEPT !.pc = "returned", !.result = result,
                   !.logged = @ + (IF Truthy(Get(r.options, "verbose")) THEN 1 ELSE 0)]

IsAbsent_NullOnly(content) == content.t \in {"null", "undefined"}

\* !content
IsAbsent(content) == ~Truthy(content)

\* lines 158-171: the response is the final answer
FinalAnswer(r, content) ==
    IF IsAbsent(content) THEN Throw(r, EmptyResponse)
    ELSE Returned(r, JSONParse(content.s, 163))

\* choice.message.tool_calls && choice.message.tool_calls.length > 0
HasToolCalls(message) == Truthy(message.tool_calls) /\ Len(message.tool_calls.es) > 0

\* lines 140-161: a response has come
OnResponse(r, message) ==
    IF HasToolCalls(message)
    THEN [r EXCEPT !.choice = message,
                   !.messages = Append(@, message),
                   !.k = 1,
                   !.pc = "calls"]
    ELSE FinalAnswer([r EXCEPT !.choice = message], message.content)

NameMatches_Any(imported, toolCall) == TRUE

\* imported.name === toolCall.function.name
NameMatches(imported, toolCall) == imported.name = toolCall.function.name

Called_WithCallerOptions(imported, input, parent, toolCall) ==
    IF IsThrown(input) THEN input
    ELSE run(imported, input, runs[parent].options, parent, toolCall.id)

\* lines 217-218: the nested run with default options, or what JSON.parse threw
Called(imported, input, parent, toolCall) ==
    IF IsThrown(input) THEN input
    ELSE run(imported, input, Obj(<<>>), parent, toolCall.id)

RECURSIVE ScanImports(_, _, _, _)

\* lines 215-219 for the import at position i
Scanned(toolCall, imports, i, parent, imported) ==
    IF IsThrown(imported) THEN imported
    ELSE IF NameMatches(imported, toolCall)
    THEN Called(imported, JSONParse(toolCall.function.arguments, 217), parent, toolCall)
    ELSE ScanImports(toolCall, imports, i + 1, parent)

\* lines 214-222 from the import at position i on
ScanImports(toolCall, imports, i, parent) ==
    IF i > Len(imports) THEN UnknownTool(toolCall.function.name)
    ELSE Scanned(toolCall, imports, i, parent, parse(imports[i].s))

executeToolCall_CycleChecked(toolCall, parentProgram, parent) ==
    IF ~Truthy(parentProgram.imports)
    THEN NoImportsDeclared(toolCall.function.name)
    ELSE IF toolCall.function.name = parentProgram.name
    THEN Thrown("Error", "Import cycle: " \o parentProgram.name, 214)
    ELSE ScanImports(toolCall, parentProgram.imports.es, 1, parent)

\* executeToolCall(toolCall, parentProgram) up to the first await of the
\* nested run: the frame of that run, or what was thrown before it began
executeToolCall(toolCall, parentProgram, parent) ==
    IF ~Truthy(parentProgram.imports)
    THEN NoImportsDeclared(toolCall.function.name)
    ELSE ScanImports(toolCall, parentProgram.imports.es, 1, parent)

\* the runs after run i has called executeToolCall
Executed(rs, i, outcome) ==
    IF IsThrown(outcome) THEN [rs EXCEPT ![i] = Rethrow(@, outcome)]
    ELSE Append([rs EXCEPT ![i] = AwaitCall(@, Len(rs) + 1)], outcome)

(***************************************************************************)
(* The provider and the callers                                            *)
(***************************************************************************)
\* The plain script of the provider answers a top-level run with the one
\* call PlainCall or with a final answer that has no tool_calls member, and a
\* nested run with such a final answer.  Every other tool call, and the
\* conformant answer with an empty tool_calls list, is off the script: the
\* provider gives at most MaxExtras of them, all before the top-level run has
\* sent more than MaxExtras requests
MaxExtras == 1

\* the conformant final answer of each program
Answer(name) ==
    CASE name = "main" -> "{\"sum\":3}"
      [] name = "loop" -> "[1,{\"a\":null}]"
      [] name = "leaf" -> "{\"ok\":true}"
      [] name = "fizzbuzz" -> "{\"results\":[\"1\"]}"
      [] name = "describe" -> "{\"text\":\"a class\"}"
      [] OTHER -> " 7 "

Message(content, tool_calls) ==
    [role |-> "assistant", content |-> content, tool_calls |-> tool_calls]

Answered(message, cost) == [message |-> message, cost |-> cost]

\* responses without tool calls: no content, empty content, content that is
\* not JSON, the conformant answer
FinalAnswers(r) ==
    { Answered(Message(Null, Undefined), 0),
      Answered(Message(Str(""), Arr(<<>>)), 0),
      Answered(Message(Str("{bad json"), Undefined), 0),
      Answered(Message(Str(Answer(r.program.name)), Undefined), 0),
      Answered(Message(Str(Answer(r.program.name)), Arr(<<>>)), 1) }

Call(name, arguments) == [name |-> name, arguments |-> arguments]

\* the call of the plain script: the first declared tool
PlainCall(r) == Call(r.tools[1].function.name, "{\"n\": 1}")

\* the top-level run that run i descends from
RECURSIVE Root(_, _)
Root(rs, i) == IF rs[i].parent = 0 THEN i ELSE Root(rs, rs[i].parent)

\* whether the provider may still answer run i off the script at this cost
Affordable(rs, i, used, cost) ==
    \/ cost = 0
    \/ used + cost <= MaxExtras /\ Len(rs[Root(rs, i)].sent) <= MaxExtras

\* what a tool call may ask for: the first declared tool with arguments
\* that fit, that are not JSON and that are not an object, every other
\* declared tool, and a tool that does not exist
CallChoices(r) ==
    {Call(r.tools[i].function.name, "{}") : i \in 2..Len(r.tools)}
    \union {Call("ghost", "{}")}
    \union (IF Len(r.tools) = 0 THEN {}
            ELSE {PlainCall(r),
                  Call(r.tools[1].function.name, "{bad"),
                  Call(r.tools[1].function.name, "3")})

\* how many calls of the list are off the plain script
Cost(r, calls) ==
    Cardinality({j \in 1..Len(calls) :
                    ~(r.parent = 0 /\ j = 1 /\ Len(r.tools) > 0 /\ calls[j] = PlainCall(r))})

CallLists(r) == UNION {[1..n -> CallChoices(r)] : n \in 1..(MaxExtras + 1)}

ToolCall(id, call) ==
    [id |-> id, type |-> "function",
     function |-> [name |-> call.name, arguments |-> call.arguments]]

\* the identifier of the call at position j in the answer to request n
CallId(n, j) == "call_" \o NatToStr(n) \o "_" \o NatToStr(j)

ToolCalls(r, calls) ==
    Arr([j \in 1..Len(calls) |-> ToolCall(CallId(Len(r.sent), j), calls[j])])

ToolCallAnswers(r) ==
    {Answered(Message(Null, ToolCalls(r, calls)), Cost(r, calls)) : calls \in CallLists(r)}

\* what the provider may answer to the request run r has outstanding
Answers(r) == FinalAnswers(r) \union ToolCallAnswers(r)

\* the calls of run made from outside: (file, input, options)
Invocation(path, input, options) == [path |-> path, input |-> input, options |-> options]

Invocations ==
    { Invocation("main.mdlang", O2("x", Str("a"), "y", Arr(<<Num(1), Num(2)>>)), Obj(<<>>)),
      Invocation("/app/lib/loop.mdlang", Obj(<< <<"n", Num(2)>> >>),
                 O2("model", Str("gpt-4o"), "verbose", Bool(TRUE))),
      Invocation("lib/leaf.mdlang", Obj(<<>>), Obj(<< <<"verbose", Bool(FALSE)>> >>)),
      Invocation("lib/empty.mdlang", Obj(<<>>), Obj(<< <<"model", Null>> >>)),
      Invocation("lib/broken.mdlang", Obj(<<>>), Obj(<<>>)) }

Init ==
    /\ runs = <<>>
    /\ extras = 0
    /\ callers = 0
    /\ schema = Undefined /\ strict = NotCalled /\ nesting = 0
    /\ pieces = 0 /\ template = "" /\ data = Undefined /\ rendered = NotCalled
    /\ cli = NotStarted

\* a caller parses a file and calls run on the program
Invoke ==
    /\ callers = 0
    /\ \E c \in Invocations :
           runs' = Append(runs, run(parse(c.path), c.input, c.options, 0, ""))
    /\ callers' = callers + 1
    /\ UNCHANGED <<extras, normalizeVars, renderVars, cliVars>>

\* lines 125-138: the loop condition holds and the request is sent
SendRequest ==
    \E i \in DOMAIN runs :
        /\ runs[i].pc = "loop"
        /\ LoopContinues(runs[i].maxIterations)
        /\ runs' = [runs EXCEPT ![i] = Requested(@)]
        /\ UNCHANGED <<extras, callers, normalizeVars, renderVars, cliVars>>

\* lines 125 and 174: the loop condition fails
LoopExhausted ==
    \E i \in DOMAIN runs :
        /\ runs[i].pc = "loop"
        /\ ~LoopContinues(runs[i].maxIterations)
        /\ runs' = [runs EXCEPT ![i] = Exhausted(@)]
        /\ UNCHANGED <<extras, callers, normalizeVars, renderVars, cliVars>>

\* lines 138-171: the provider answers the outstanding request of a run
Respond ==
    \E i \in DOMAIN runs :
        /\ runs[i].pc = "awaiting"
        /\ \E a \in Answers(runs[i]) :
               /\ Affordable(runs, i, extras, a.cost)
               /\ extras' = extras + a.cost
               /\ runs' = [runs EXCEPT ![i] = OnResponse(@, a.message)]
        /\ UNCHANGED <<callers, normalizeVars, renderVars, cliVars>>

\* line 147: the for loop calls executeToolCall for the next tool call
ExecuteToolCall ==
    \E i \in DOMAIN runs :
        /\ runs[i].pc = "calls"
        /\ runs' = Executed(runs, i, executeToolCall(CurrentCall(runs[i]), runs[i].program, i))
        /\ UNCHANGED <<extras, callers, normalizeVars, renderVars, cliVars>>

\* lines 147-153: the nested run has returned and its result is appended
ToolResult ==
    \E i \in DOMAIN runs :
        /\ runs[i].pc = "waiting"
        /\ runs[runs[i].child].pc = "returned"
        /\ runs' = [runs EXCEPT ![i] = AfterToolResult(@, runs[runs[i].child].result)]
        /\ UNCHANGED <<extras, callers, normalizeVars, renderVars, cliVars>>

\* line 147: the nested run has failed and its error leaves the enclosing run
ToolFailure ==
    \E i \in DOMAIN runs :
        /\ runs[i].pc = "waiting"
        /\ runs[runs[i].child].pc = "failed"
        /\ runs' = [runs EXCEPT ![i] = Rethrow(@, runs[runs[i].child].error)]
        /\ UNCHANGED <<extras, callers, normalizeVars, renderVars, cliVars>>

Next ==
    \/ Invoke
    \/ SendRequest
    \/ LoopExhausted
    \/ Respond
    \/ ExecuteToolCall
    \/ ToolResult
    \/ ToolFailure

Spec == Init /\ [][Next]_vars

\* Respond can take a step exactly when a run has a request outstanding, and
\* ExecuteToolCall exactly when a run is at a tool call
AnswerPending == \E i \in DOMAIN runs : runs[i].pc = "awaiting"

CallPending == \E i \in DOMAIN runs : runs[i].pc = "calls"

\* the code of a run goes on whenever it can, and every provider call
\* returns; nothing obliges a caller to invoke run.  The weak fairness of
\* Respond and of ExecuteToolCall is written out with the enabling
\* conditions above
Fairness ==
    /\ WF_vars(SendRequest)
    /\ WF_vars(LoopExhausted)
    /\ ([]<>~AnswerPending \/ []<><<Respond>>_vars)
    /\ ([]<>~CallPending \/ []<><<ExecuteToolCall>>_vars)
    /\ WF_vars(ToolResult)
    /\ WF_vars(ToolFailure)

FairSpec == Spec /\ Fairness

(***************************************************************************)
(* Two callers at once                                                     *)
(***************************************************************************)
\* two independent invocations of run, made in either order and at any time
ConcurrentInvocations ==
    {c \in Invocations : c.path \in {"/app/lib/loop.mdlang", "lib/leaf.mdlang"}}

\* a caller parses a file and calls run while the run of another caller may
\* be in flight
InvokeConcurrently ==
    /\ \E c \in ConcurrentInvocations :
           /\ \A i \in DOMAIN runs :
                  runs[i].parent = 0 => runs[i].options # c.options
           /\ runs' = Append(runs, run(parse(c.path), c.input, c.options, 0, ""))
    /\ callers' = callers + 1
    /\ UNCHANGED <<extras, normalizeVars, renderVars, cliVars>>

\* the answers of the plain script of the provider
PlainAnswers(r) == {a \in Answers(r) : a.cost = 0}

\* lines 138-171: the provider answers the outstanding request of a run
\* from its plain script
RespondPlainly ==
    \E i \in DOMAIN runs :
        /\ runs[i].pc = "awaiting"
        /\ \E a \in PlainAnswers(runs[i]) :
               runs' = [runs EXCEPT ![i] = OnResponse(@, a.message)]
        /\ UNCHANGED <<extras, callers, normalizeVars, renderVars, cliVars>>

NextConcurrent ==
    \/ InvokeConcurrently
    \/ SendRequest
    \/ LoopExhausted
    \/ RespondPlainly
    \/ ExecuteToolCall
    \/ ToolResult
    \/ ToolFailure

SpecConcurrent == Init /\ [][NextConcurrent]_vars

(***************************************************************************)
(* The command line: markdownlang run <file>                               *)
(***************************************************************************)
\* whether JSON.stringify writes a value at all
Written(v) == v.t \notin {"undefined", "function"}

WrittenMember(e) == Written(e[2])

RECURSIVE Indented(_, _)
RECURSIVE IndentedElements(_, _, _)
RECURSIVE IndentedMembers(_, _, _)

\* the elements of an array from index i on, one to a line
IndentedElements(es, i, indent) ==
    IF i > Len(es) THEN ""
    ELSE (IF i > 1 THEN ",\n" ELSE "") \o indent
         \o (IF Written(es[i]) THEN Indented(es[i], indent) ELSE "null")
         \o IndentedElements(es, i + 1, indent)

\* the written members of an object from position i on, one to a line
IndentedMembers(kv, i, indent) ==
    IF i > Len(kv) THEN ""
    ELSE (IF i > 1 THEN ",\n" ELSE "") \o indent
         \o Quote(kv[i][1]) \o ": " \o Indented(kv[i][2], indent)
         \o IndentedMembers(kv, i + 1, indent)

\* the text of a written value at an indentation, two spaces to a level
Indented(v, indent) ==
    CASE v.t = "array" /\ Len(v.es) > 0 ->
             "[\n" \o IndentedElements(v.es, 1, indent \o "  ") \o "\n" \o indent \o "]"
      [] v.t = "object" /\ SelectSeq(v.kv, WrittenMember) # <<>> ->
             "{\n" \o IndentedMembers(SelectSeq(v.kv, WrittenMember), 1, indent \o "  ")
             \o "\n" \o indent \o "}"
      [] OTHER -> JSONStringify(v).s

\* JSON.stringify(v, null, 2)
JSONStringifyIndented(v) == IF Written(v) THEN Str(Indented(v, "")) ELSE Undefined

\* console.error, console.log and process.exit on the process p
ConsoleError(p, line) == [p EXCEPT !.stderr = Append(@, line)]

ConsoleLog(p, line) == [p EXCEPT !.stdout = Append(@, line)]

ProcessExit(p, code) == [p EXCEPT !.pc = "exited", !.code = code]

\* lines 67-70: the catch of the action
Caught(p, err) == ProcessExit(ConsoleError(p, "Error: " \o err.message), 1)

\* lines 43-46: the catch of JSON.parse
InvalidInput(p) == ProcessExit(ConsoleError(p, "Error: --input must be valid JSON"), 1)

\* what the action leaves behind: the process and the runs
Left(p, rs) == [cli |-> p, runs |-> rs]

\* lines 61-64: the options the action hands to run
RunOptions(opts) == O2("model", Get(opts, "model"), "verbose", Get(opts, "verbose"))

\* lines 61-64: every check has passed and run is called
CallRun(p, rs) ==
    Left([p EXCEPT !.pc = "running", !.run = Len(rs) + 1],
         Append(rs, run(p.prog, p.input, RunOptions(p.opts), 0, "")))

\* prog.input.required
RequiredOf(input) ==
    IF input.t \in {"null", "undefined"}
    THEN Thrown("TypeError",
                "Cannot read properties of " \o StringOf(input) \o " (reading 'required')", 49)
    ELSE Get(input, "required")

\* the values `for (const field of required)` visits, as property keys
FieldsOf(required) ==
    IF required.t = "array"
    THEN [i \in 1..Len(required.es) |-> StringOf(required.es[i])]
    ELSE [i \in 1..Len(required.s) |-> At(required.s, i)]

RECURSIVE JoinWith(_, _, _)
\* es.join(sep) from index i on
JoinWith(es, i, sep) ==
    IF i > Len(es) THEN ""
    ELSE (IF i > 1 THEN sep ELSE "")
         \o (IF es[i].t \in {"null", "undefined"} THEN "" ELSE StringOf(es[i]))
         \o JoinWith(es, i + 1, sep)

\* lines 52-56: a required field is not in the input
MissingInput(p, field, required) ==
    IF required.t # "array"
    THEN Caught(ConsoleError(p, "Error: missing required input field \"" \o field \o "\""),
                Thrown("TypeError", "prog.input.required.join is not a function", 54))
    ELSE ProcessExit(
             ConsoleError(
                 ConsoleError(p, "Error: missing required input field \"" \o field \o "\""),
                 "Required fields: " \o JoinWith(required.es, 1, ", ")),
             1)

RECURSIVE CheckFrom(_, _, _, _, _)
\* lines 50-58 from the field at position i on
CheckFrom(p, rs, required, fields, i) ==
    IF i > Len(fields) THEN CallRun(p, rs)
    ELSE IF InThrows(p.input)
    THEN Left(Caught(p, Thrown("TypeError",
                               "Cannot use 'in' operator to search for '" \o fields[i]
                               \o "' in " \o StringOf(p.input), 51)), rs)
    ELSE IF In(fields[i], p.input) THEN CheckFrom(p, rs, required, fields, i + 1)
    ELSE Left(MissingInput(p, fields[i], required), rs)

\* lines 49-59: the check of the required fields
CheckRequired(p, rs, required) ==
    IF IsThrown(required) THEN Left(Caught(p, required), rs)
    ELSE IF ~Truthy(required) THEN CallRun(p, rs)
    ELSE IF required.t \in {"array", "string"}
    THEN CheckFrom(p, rs, required, FieldsOf(required), 1)
    ELSE Left(Caught(p, Thrown("TypeError", "prog.input.required is not iterable", 50)), rs)

\* lines 40-59: the input is parsed and checked
WithInput(p, rs, input) ==
    IF IsThrown(input) THEN Left(InvalidInput(p), rs)
    ELSE CheckRequired([p EXCEPT !.input = input], rs, RequiredOf(p.prog.input))

\* lines 38-59: the program is parsed
WithProgram(p, rs, prog) ==
    IF IsThrown(prog) THEN Left(Caught(p, prog), rs)
    ELSE WithInput([p EXCEPT !.prog = prog], rs, JSONParse(Get(p.opts, "input").s, 42))

\* the action of the run command up to its await of run, or to its exit
RunAction(file, opts, rs) ==
    WithProgram([NotStarted EXCEPT !.file = file, !.opts = opts], rs, parse(file))

\* lines 61-66: run has returned and the result is printed; the process
\* ends with nothing left to do
Printed(p, result) ==
    ProcessExit(ConsoleLog(p, StringOf(JSONStringifyIndented(result))), 0)

\* the options commander hands to the action: --input and --model have
\* defaults, --verbose is there only when given
Opts(input, verbose) ==
    IF verbose
    THEN O3("input", Str(input), "model", Str("gpt-4o-mini"), "verbose", Bool(TRUE))
    ELSE O2("input", Str(input), "model", Str("gpt-4o-mini"))

CommandLine(file, opts) == [file |-> file, opts |-> opts]

\* the command lines tried: the README example, a program that requires an
\* inherited name, a program with imports and no required list, no file
CommandLines ==
    {CommandLine(f, Opts(i, v)) :
        f \in {"fizzbuzz.mdlang", "describe.mdlang", "main.mdlang", "gone.mdlang"},
        i \in {"{}", "{\"start\":1,\"end\":2}", "{\"end\":2}", "{bad", "3"},
        v \in BOOLEAN}

\* lines 36-64: the command is given
RunCommand ==
    /\ cli.pc = "idle"
    /\ \E c \in CommandLines :
           /\ cli' = RunAction(c.file, c.opts, runs).cli
           /\ runs' = RunAction(c.file, c.opts, runs).runs
    /\ UNCHANGED <<extras, callers, normalizeVars, renderVars>>

\* lines 61-66: the awaited run has returned
CommandReturns ==
    /\ cli.pc = "running"
    /\ runs[cli.run].pc = "returned"
    /\ cli' = Printed(cli, runs[cli.run].result)
    /\ UNCHANGED <<engineVars, normalizeVars, renderVars>>

\* lines 61 and 67-70: the awaited run has thrown
CommandFails ==
    /\ cli.pc = "running"
    /\ runs[cli.run].pc = "failed"
    /\ cli' = Caught(cli, runs[cli.run].error)
    /\ UNCHANGED <<engineVars, normalizeVars, renderVars>>

NextCli ==
    \/ RunCommand
    \/ SendRequest
    \/ LoopExhausted
    \/ RespondPlainly
    \/ ExecuteToolCall
    \/ ToolResult
    \/ ToolFailure
    \/ CommandReturns
    \/ CommandFails

SpecCli == Init /\ [][NextCli]_vars

(***************************************************************************)
(* Properties of the normalizer, under SpecNormalize                       *)
(***************************************************************************)
\* normalize applied to what normalize gave; an exception stays what it is
NormalizedAgain(v) == IF IsThrown(v) THEN v ELSE prepareSchemaForStrictMode(v)

\* C2: normalize is idempotent: for every schema of the family, normalising
\* the normalised schema again gives the normalised schema
NormalizeIdempotent ==
    strict # NotCalled => NormalizedAgain(strict) = strict

\* a schema of full height whose normal form differs from it, has a forced
\* required list and is a fixed point
NormalizeIdempotentWitness ==
    /\ strict # NotCalled
    /\ ~IsThrown(strict)
    /\ nesting = 3
    /\ strict # schema
    /\ Get(strict, "required").t = "array"
    /\ prepareSchemaForStrictMode(strict) = strict

RECURSIVE StrictShape(_, _)

\* the nodes paired position by position
StrictShapeEach(ins, outs) ==
    /\ Len(ins) = Len(outs)
    /\ \A i \in 1..Len(outs) : StrictShape(ins[i][2], outs[i][2])

\* out, the normal form of in, and every node under it that is reached
\* through the property values of object-typed nodes, the items of
\* array-typed nodes and anyOf branches: a node with type "object" and a
\* properties mapping lists exactly its property names, in order, as
\* required, forbids additional properties and has the property names of
\* the input node in the input's order
StrictShape(in, out) ==
    \/ out.t # "object"
    \/ /\ (Get(out, "type") = Str("object") /\ Get(out, "properties").t = "object") =>
              /\ Get(out, "required") = Arr([i \in 1..Len(Get(out, "properties").kv) |->
                                               Str(Get(out, "properties").kv[i][1])])
              /\ Get(out, "additionalProperties") = Bool(FALSE)
              /\ ObjectKeys(Get(out, "properties")) = ObjectKeys(Get(in, "properties"))
              /\ StrictShapeEach(ObjectEntries(Get(in, "properties")),
                                 Get(out, "properties").kv)
       /\ (Get(out, "type") = Str("array") /\ Get(out, "items").t = "object") =>
              StrictShape(Get(in, "items"), Get(out, "items"))
       /\ (Get(out, "anyOf").t = "array") =>
              StrictShapeEach(ObjectEntries(Get(in, "anyOf")),
                              ObjectEntries(Get(out, "anyOf")))

\* C3: in the normal form of every schema, each object-typed node with a
\* properties mapping, at the root and wherever the recursion reaches, has
\* required equal to its property names in order and additionalProperties
\* false, whatever the input node had, and keeps the input's property names
\* and their order
RequiredIsEveryProperty ==
    (strict # NotCalled /\ ~IsThrown(strict)) => StrictShape(schema, strict)

\* the input node had a stale required list and allowed additional
\* properties, and holds a nested schema
RequiredIsEveryPropertyWitness ==
    /\ strict # NotCalled
    /\ ~IsThrown(strict)
    /\ nesting = 3
    /\ Get(schema, "additionalProperties") = Bool(TRUE)
    /\ Get(schema, "required") = Arr(<<Str("z")>>)
    /\ Get(strict, "required") = Arr(<<Str("b"), Str("a")>>)
    /\ Get(strict, "additionalProperties") = Bool(FALSE)

\* C10: normalize is total: whatever value it is given, it returns a value
\* and raises no error
NormalizeTotal ==
    strict # NotCalled => ~IsThrown(strict)

(***************************************************************************)
(* Properties of the renderer, under SpecRender                            *)
(***************************************************************************)
\* the least position from i on whose character is not in class
FirstOutside(s, i, class) ==
    CHOOSE p \in i..(Len(s) + 1) :
        /\ At(s, p) \notin class
        /\ \A q \in i..(p - 1) : At(s, q) \in class

\* where the identifier of a token that starts at i begins
IdentifierStart(s, i) == FirstOutside(s, i + 2, SpaceChars) + 1

\* the position after the identifier of a token that starts at i
IdentifierEnd(s, i) == FirstOutside(s, IdentifierStart(s, i), WordChars)

\* where the closing braces of a token that starts at i begin
ClosingStart(s, i) == FirstOutside(s, IdentifierEnd(s, i), SpaceChars)

\* a placeholder token starts at i: double open brace, optional whitespace,
\* dot, identifier, optional whitespace, double close brace
TokenAt(s, i) ==
    /\ StartsWithAt(s, i, "{{")
    /\ At(s, IdentifierStart(s, i) - 1) = "."
    /\ IdentifierEnd(s, i) > IdentifierStart(s, i)
    /\ StartsWithAt(s, ClosingStart(s, i), "}}")

TokenIdentifier(s, i) == SubSeq(s, IdentifierStart(s, i), IdentifierEnd(s, i) - 1)

TokenText(s, i) == SubSeq(s, i, ClosingStart(s, i) + 1)

\* the text of a bound value: JSON text for objects and arrays, the natural
\* string form for scalars
BoundText(v) ==
    IF v.t \in {"object", "array"} THEN JSONStringify(v).s ELSE StringOf(v)

\* what render is to give for the text of s from position i on: tokens
\* whose identifier is a key of the bindings become the text of the bound
\* value, every other token and all text outside tokens stay as written
RECURSIVE Substituted(_, _, _)
Substituted(s, i, bindings) ==
    IF i > Len(s) THEN ""
    ELSE IF ~TokenAt(s, i) THEN At(s, i) \o Substituted(s, i + 1, bindings)
    ELSE (IF HasOwn(bindings, TokenIdentifier(s, i))
          THEN BoundText(Get(bindings, TokenIdentifier(s, i)))
          ELSE TokenText(s, i))
         \o Substituted(s, ClosingStart(s, i) + 2, bindings)

\* C4: for every body and bindings, render replaces each placeholder token
\* whose identifier is a key of the bindings by the text of the bound value,
\* leaves every token whose identifier is not a key of the bindings exactly
\* as written, and leaves all text outside tokens unchanged
RenderSubstitutesBoundTokensOnly ==
    rendered # NotCalled => rendered = Str(Substituted(template, 1, data))

(***************************************************************************)
(* Properties of the engine, under Spec                                    *)
(***************************************************************************)
Finished(r) == r.pc \in {"returned", "failed"}

\* the assistant messages of a conversation
AssistantMessages(messages) ==
    {j \in 1..Len(messages) : messages[j].role = "assistant"}

\* the run failed in its own loop, not in one of its tool calls
FailedInLoop(r) == r.pc = "failed" /\ r.k = 0

\* no run has sent an 11th request, and a run whose own loop raised
\* IterationLimitExceeded has made exactly 10 round-trips, each answered
\* with tool calls
TenRequestsAtMost ==
    \A i \in DOMAIN runs :
        /\ Len(runs[i].sent) <= 10
        /\ (FailedInLoop(runs[i]) /\ runs[i].error = IterationLimitExceeded) =>
               /\ Len(runs[i].sent) = 10
               /\ Cardinality(AssistantMessages(runs[i].messages)) = 10

\* a run back at the head of its loop after 10 round-trips, every one
\* answered with tool calls that all succeeded, takes one step only: it
\* fails with IterationLimitExceeded, sends nothing and returns nothing
TenthRoundTripFails ==
    \A i \in DOMAIN runs :
        (runs[i].pc = "loop" /\ Len(runs[i].sent) = 10 /\ runs'[i] # runs[i]) =>
            /\ runs'[i].pc = "failed"
            /\ runs'[i].error = IterationLimitExceeded
            /\ runs'[i].sent = runs[i].sent
            /\ runs'[i].result = Undefined

\* C1: a run sends at most 10 provider requests for its own conversation,
\* whatever the provider answers; when each of the first 10 responses
\* carries tool calls that all succeed, the run fails with
\* IterationLimitExceeded after exactly 10 round-trips, not earlier, and an
\* 11th request is never sent
IterationLimit == [] TenRequestsAtMost /\ [][TenthRoundTripFails]_vars

\* a run that failed with IterationLimitExceeded after 10 round-trips
IterationLimitWitness ==
    \E i \in DOMAIN runs :
        /\ FailedInLoop(runs[i])
        /\ runs[i].error = IterationLimitExceeded
        /\ Len(runs[i].sent) = 10
        /\ Cardinality(AssistantMessages(runs[i].messages)) = 10
        /\ \A j \in DOMAIN runs : runs[j].parent = i => runs[j].pc = "returned"

\* the latest response of the run carries no tool-call request
AnsweredFinally(r) ==
    /\ r.choice # Undefined
    /\ (r.choice.tool_calls.t = "undefined" \/ Len(r.choice.tool_calls.es) = 0)

\* the content of a response is absent: null, missing or empty
Absent(content) == content.t = "null" \/ content.t = "undefined" \/ content = Str("")

\* C5: a response without tool-call requests ends the run at that response:
\* the run fails with EmptyResponse if the content is absent, fails with
\* MalformedOutput if the content is not valid JSON, and otherwise returns
\* exactly the value parsed from the content; a failed run returns no value
\* and in all three cases no further request is sent
FinalResponseEndsRun ==
    \A i \in DOMAIN runs :
        LET r == runs[i]
            parsed == JSONParse(r.choice.content.s, 163)
        IN  AnsweredFinally(r) =>
                /\ Finished(r)
                /\ r.sent[Len(r.sent)].messages = r.messages
                /\ IF Absent(r.choice.content)
                   THEN /\ r.pc = "failed"
                        /\ r.error = EmptyResponse
                        /\ r.result = Undefined
                   ELSE IF IsThrown(parsed)
                   THEN /\ r.pc = "failed"
                        /\ r.error.name = "SyntaxError"
                        /\ r.error.line = 163
                        /\ r.result = Undefined
                   ELSE /\ r.pc = "returned"
                        /\ r.result = parsed
                        /\ r.error = Undefined

\* one run has returned the parsed array of its answer and another has
\* failed on content that is not JSON
FinalResponseEndsRunWitness ==
    /\ \E i \in DOMAIN runs :
           /\ AnsweredFinally(runs[i])
           /\ runs[i].pc = "returned"
           /\ runs[i].result = Arr(<<Num(1), Obj(<< <<"a", Null>> >>)>>)
    /\ \E i \in DOMAIN runs :
           /\ AnsweredFinally(runs[i])
           /\ runs[i].choice.content = Str("{bad json")
           /\ runs[i].error.line = 163

\* run r has called executeToolCall for the tool call at position k and has
\* not moved past it
Invoking(r) == r.k > 0 /\ r.pc \in {"waiting", "failed"}

\* the names of the programs that load from the imports of a program
ImportNames(program) ==
    IF program.imports.t # "array" THEN {}
    ELSE {parse(program.imports.es[j].s).name :
             j \in {n \in 1..Len(program.imports.es) :
                       ~IsThrown(parse(program.imports.es[n].s))}}

\* the conversation of r holds no tool message for the call
NoToolMessageFor(r, toolCall) ==
    \A j \in 1..Len(r.messages) :
        r.messages[j].role = "tool" => r.messages[j].tool_call_id # toolCall.id

IsUnknownTool(error) == error.t = "throw" /\ error.line = 222

\* C6 as the specification states it: a call name that is the name
\* of no program loaded from the parent's imports fails with UnknownTool,
\* with no nested run, no tool message and the enclosing run failed; a call
\* name that some import's program has does not fail with UnknownTool
UnknownToolWheneverNoImportMatches ==
    \A i \in DOMAIN runs :
        Invoking(runs[i]) =>
            IF CurrentCall(runs[i]).function.name \notin ImportNames(runs[i].program)
            THEN /\ runs[i].pc = "failed"
                 /\ runs[i].error = UnknownTool(CurrentCall(runs[i]).function.name)
                 /\ runs[i].child = 0
                 /\ NoToolMessageFor(runs[i], CurrentCall(runs[i]))
            ELSE ~(runs[i].pc = "failed" /\ IsUnknownTool(runs[i].error))

\* C6: when the parent declares an imports list and the call name is the
\* name of no program loaded from it, invokeTool fails with UnknownTool: no
\* nested run is started, no tool message is appended for the call and the
\* enclosing run fails.  When some import's program has the call name, the
\* lookup raises no UnknownTool: either the arguments do not parse or a
\* nested run of that program is started, and the enclosing run fails with
\* UnknownTool only with the error that nested run failed with
UnknownToolOnDeclaredImports ==
    \A i \in DOMAIN runs :
        Invoking(runs[i]) =>
            IF CurrentCall(runs[i]).function.name \notin ImportNames(runs[i].program)
            THEN runs[i].program.imports.t = "array" =>
                     /\ runs[i].pc = "failed"
                     /\ runs[i].error = UnknownTool(CurrentCall(runs[i]).function.name)
                     /\ runs[i].child = 0
                     /\ \A j \in DOMAIN runs :
                            runs[j].parent = i => runs[j].forCall # CurrentCall(runs[i]).id
                     /\ NoToolMessageFor(runs[i], CurrentCall(runs[i]))
            ELSE /\ \/ /\ runs[i].child = 0
                       /\ runs[i].pc = "failed"
                       /\ runs[i].error.name = "SyntaxError"
                       /\ runs[i].error.line = 217
                    \/ /\ runs[i].child \in DOMAIN runs
                       /\ runs[runs[i].child].parent = i
                       /\ runs[runs[i].child].program.name
                              = CurrentCall(runs[i]).function.name
                 /\ (runs[i].pc = "failed" /\ IsUnknownTool(runs[i].error)) =>
                        /\ runs[i].child \in DOMAIN runs
                        /\ runs[runs[i].child].pc = "failed"
                        /\ runs[runs[i].child].error = runs[i].error

\* a run with three declared imports has failed on a call of "ghost"
UnknownToolOnDeclaredImportsWitness ==
    \E i \in DOMAIN runs :
        /\ Invoking(runs[i])
        /\ Len(runs[i].tools) = 3
        /\ CurrentCall(runs[i]).function.name = "ghost"
        /\ runs[i].pc = "failed"
        /\ runs[i].error = UnknownTool("ghost")
        /\ runs[i].child = 0

IsPrefix(a, b) == Len(a) <= Len(b) /\ SubSeq(b, 1, Len(a)) = a

\* from position i on, the messages are groups: an assistant message with
\* n >= 1 tool calls, then n tool messages that carry the identifiers of
\* those calls in the same order
RECURSIVE Groups(_, _)
Groups(messages, i) ==
    \/ i > Len(messages)
    \/ /\ messages[i].role = "assistant"
       /\ messages[i].tool_calls.t = "array"
       /\ Len(messages[i].tool_calls.es) >= 1
       /\ i + Len(messages[i].tool_calls.es) <= Len(messages)
       /\ \A j \in 1..Len(messages[i].tool_calls.es) :
              /\ messages[i + j].role = "tool"
              /\ messages[i + j].tool_call_id = messages[i].tool_calls.es[j].id
       /\ Groups(messages, i + Len(messages[i].tool_calls.es) + 1)

\* one system message, one user message with the prompt, groups
WellFormed(prompt, messages) ==
    /\ Len(messages) >= 2
    /\ messages[1].role = "system"
    /\ messages[2] = [role |-> "user", content |-> prompt]
    /\ Groups(messages, 3)

\* C7: at every provider request of a run the conversation sent is one
\* system message, one user message with the rendered prompt, then groups
\* of one assistant message with n >= 1 tool calls followed by exactly n
\* tool messages with the identifiers of those calls in order; and the
\* conversation of each request is a prefix of that of the next
ConversationShape ==
    \A i \in DOMAIN runs :
        LET r == runs[i]
            prompt == renderTemplate(r.program.body, r.input).s
        IN  \A n \in 1..Len(r.sent) :
                /\ WellFormed(prompt, r.sent[n].messages)
                /\ n > 1 => IsPrefix(r.sent[n - 1].messages, r.sent[n].messages)

\* a third request whose conversation holds a group of two tool calls
ConversationShapeWitness ==
    \E i \in DOMAIN runs :
        /\ Len(runs[i].sent) >= 3
        /\ \E j \in 1..Len(runs[i].sent[3].messages) :
               /\ runs[i].sent[3].messages[j].role = "assistant"
               /\ Len(runs[i].sent[3].messages[j].tool_calls.es) = 2

\* the tool messages appended since the latest assistant message
LatestToolMessages(r) ==
    SubSeq(r.messages,
           (CHOOSE j \in AssistantMessages(r.messages) :
                \A n \in AssistantMessages(r.messages) : n <= j) + 1,
           Len(r.messages))

\* the tool messages of the latest response answer its first n calls, in
\* the order the provider listed them
AnsweredInOrder(r, n) ==
    /\ Len(LatestToolMessages(r)) = n
    /\ \A j \in 1..n :
           /\ LatestToolMessages(r)[j].role = "tool"
           /\ LatestToolMessages(r)[j].tool_call_id = r.choice.tool_calls.es[j].id

\* at most one run of each call chain has a provider request outstanding,
\* and a nested run that has not finished is the one its parent waits for
OneAtATime ==
    /\ \A i \in DOMAIN runs :
           Cardinality({j \in DOMAIN runs :
                           Root(runs, j) = Root(runs, i) /\ runs[j].pc = "awaiting"}) <= 1
    /\ \A c \in DOMAIN runs :
           (runs[c].parent # 0 /\ ~Finished(runs[c])) =>
               /\ runs[runs[c].parent].pc = "waiting"
               /\ runs[runs[c].parent].child = c

\* a nested run starts for the call at position k only when the calls
\* before it have completed and their tool messages, and no others, have
\* been appended
StartsAfterEarlierCalls ==
    \A c \in DOMAIN runs' :
        (c \notin DOMAIN runs /\ runs'[c].parent # 0) =>
            LET p == runs[runs'[c].parent]
            IN  /\ p.pc = "calls"
                /\ runs'[c].forCall = p.choice.tool_calls.es[p.k].id
                /\ AnsweredInOrder(p, p.k - 1)
                /\ \A d \in DOMAIN runs :
                       runs[d].parent = runs'[c].parent => runs[d].pc = "returned"

\* a run sends a request only when every call of its latest response has
\* its tool message and every nested run of it has returned
RequestsAfterAllCalls ==
    \A i \in DOMAIN runs :
        Len(runs'[i].sent) > Len(runs[i].sent) =>
            /\ runs[i].choice # Undefined =>
                   AnsweredInOrder(runs[i], Len(runs[i].choice.tool_calls.es))
            /\ \A d \in DOMAIN runs : runs[d].parent = i => runs[d].pc = "returned"

\* C8: the tool calls of a response are executed one at a time in the order
\* listed: call j+1, its nested run and that run's requests start only after
\* call j has completed and its tool message has been appended, the next
\* request of the run is sent only after the tool messages of all calls, and
\* at most one run of a call chain has a provider request outstanding
ToolCallsSequential ==
    [] OneAtATime /\ [][StartsAfterEarlierCalls /\ RequestsAfterAllCalls]_vars

\* the nested run of the second call of a response has a request
\* outstanding, and the tool message of the first call is in place
ToolCallsSequentialWitness ==
    \E i \in DOMAIN runs :
        /\ runs[i].pc = "waiting"
        /\ runs[i].k = 2
        /\ AnsweredInOrder(runs[i], 1)
        /\ runs[runs[i].child].pc = "awaiting"

\* a failed nested run has its parent waiting for it or failed with its
\* error at the same tool call; a failed run has returned nothing; no run
\* has sent the same request twice and no tool call has been run twice
FailuresPropagate ==
    /\ \A c \in DOMAIN runs :
           runs[c].pc = "failed" =>
               /\ runs[c].result = Undefined
               /\ runs[c].parent # 0 =>
                      /\ runs[runs[c].parent].child = c
                      /\ runs[runs[c].parent].choice.tool_calls.es[runs[runs[c].parent].k].id
                             = runs[c].forCall
                      /\ \/ runs[runs[c].parent].pc = "waiting"
                         \/ /\ runs[runs[c].parent].pc = "failed"
                            /\ runs[runs[c].parent].error = runs[c].error
    /\ \A i \in DOMAIN runs :
           /\ \A a, b \in 1..Len(runs[i].sent) : a # b => runs[i].sent[a] # runs[i].sent[b]
           /\ \A c, d \in DOMAIN runs :
                  (c # d /\ runs[c].parent = i /\ runs[d].parent = i) =>
                      runs[c].forCall # runs[d].forCall

\* a failed run stays as it is and starts no nested run; a run whose tool
\* call failed, in the lookup or in the nested run, does nothing but fail
\* with that error: nothing is appended, sent or returned
FailedForGood ==
    \A i \in DOMAIN runs :
        /\ runs[i].pc = "failed" =>
               /\ runs'[i] = runs[i]
               /\ \A d \in DOMAIN runs' : d \notin DOMAIN runs => runs'[d].parent # i
        /\ (runs[i].pc = "waiting" /\ runs[runs[i].child].pc = "failed"
                /\ runs'[i] # runs[i]) =>
               runs'[i] = [runs[i] EXCEPT !.pc = "failed",
                                          !.error = runs[runs[i].child].error]
        /\ (runs[i].pc = "calls" /\ runs'[i].pc = "failed") =>
               /\ IsThrown(runs'[i].error)
               /\ runs'[i] = [runs[i] EXCEPT !.pc = "failed", !.error = runs'[i].error]
               /\ DOMAIN runs' = DOMAIN runs

\* C9: no error is recovered inside run: when a tool invocation fails, in
\* the lookup or in the nested run, the enclosing run fails with that error,
\* executes none of the remaining tool calls, sends no further request and
\* returns no result, at every nesting level up to the top-level caller; no
\* request is retried
NoErrorRecovered == [] FailuresPropagate /\ [][FailedForGood]_vars

\* a run nested two levels deep failed on an empty response and the
\* top-level run has failed with that error
NoErrorRecoveredWitness ==
    \E c \in DOMAIN runs :
        /\ runs[c].parent # 0
        /\ runs[runs[c].parent].parent # 0
        /\ runs[runs[runs[c].parent].parent].parent = 0
        /\ FailedInLoop(runs[c])
        /\ runs[c].error = EmptyResponse
        /\ runs[runs[c].parent].pc = "failed"
        /\ runs[runs[runs[c].parent].parent].pc = "failed"
        /\ runs[runs[runs[c].parent].parent].error = EmptyResponse

\* the program declares no imports: the list is absent or empty
DeclaresNoImports(program) ==
    program.imports.t # "array" \/ Len(program.imports.es) = 0

\* C11: when the program of a run declares no imports, the imports list
\* being absent or empty, and a response carries a tool-call request, the
\* invocation of the tool fails with NoImportsDeclared and the run fails with
\* that error; no nested run is started
NoImportsDeclaredWithoutImports ==
    \A i \in DOMAIN runs :
        (Invoking(runs[i]) /\ DeclaresNoImports(runs[i].program)) =>
            /\ runs[i].pc = "failed"
            /\ runs[i].error = NoImportsDeclared(CurrentCall(runs[i]).function.name)
            /\ runs[i].child = 0

\* the tool declarations the specification gives a program whose imports
\* all load: none without imports, else one per import reference, in import
\* order, with the name and the description of the program loaded from the
\* reference and its normalised input schema as parameters
DeclaredAsSpecified(program, tools) ==
    IF DeclaresNoImports(program) THEN tools = <<>>
    ELSE /\ Len(tools) = Len(program.imports.es)
         /\ \A j \in 1..Len(tools) :
                LET imported == parse(program.imports.es[j].s)
                IN  /\ tools[j].type = "function"
                    /\ DOMAIN tools[j].function = {"name", "description", "parameters"}
                    /\ tools[j].function.name = imported.name
                    /\ tools[j].function.description = imported.description
                    /\ tools[j].function.parameters
                           = prepareSchemaForStrictMode(imported.input)

\* run has passed line 94: its tools are resolved
ToolsResolved(r) == r.messages # <<>>

\* C12: declareTools returns the empty sequence for a program without
\* imports (absent or empty list) and otherwise one tool declaration per
\* import reference, in import order, each with the name and description of
\* the program loaded from that reference and the normalised input schema of
\* that program as parameters
DeclareToolsProjectsImports ==
    \A i \in DOMAIN runs :
        ToolsResolved(runs[i]) => DeclaredAsSpecified(runs[i].program, runs[i].tools)

\* a run of the program with three imports holds three declarations, the
\* first with a schema that normalisation changed, and the nested run of
\* a program without an imports list holds none
DeclareToolsProjectsImportsWitness ==
    /\ \E i \in DOMAIN runs :
           /\ ToolsResolved(runs[i])
           /\ ~DeclaresNoImports(runs[i].program)
           /\ Len(runs[i].program.imports.es) = 3
           /\ Len(runs[i].tools) = 3
           /\ runs[i].tools[1].function.name = "loop"
           /\ runs[i].tools[2].function.name = "leaf"
           /\ runs[i].tools[1].function.parameters
                  # parse(runs[i].program.imports.es[1].s).input
    /\ \E c \in DOMAIN runs :
           /\ runs[c].parent = 1
           /\ ToolsResolved(runs[c])
           /\ runs[c].program.imports.t = "undefined"
           /\ runs[c].tools = <<>>

(***************************************************************************)
(* Further properties of the normalizer, under SpecNormalize               *)
(***************************************************************************)
\* the keys of a value as a set
KeySet(v) == {ObjectEntries(v)[i][1] : i \in 1..Len(ObjectEntries(v))}

\* the keys the normalizer copies and does not touch afterwards
PassedThrough == {"description", "enum", "const", "oneOf", "$ref", "$defs"}

RECURSIVE AllowListed(_, _)

\* the nodes paired position by position
AllowListedEach(ins, outs) ==
    /\ Len(ins) = Len(outs)
    /\ \A i \in 1..Len(outs) : AllowListed(ins[i][2], outs[i][2])

\* out, the normal form of the object-shaped in, has only allow-listed keys:
\* the allow-listed keys of in, and required and additionalProperties where
\* the normalizer sets them; the values it passes through are those of in;
\* and so for the nodes reached through property values, the items of
\* array-typed nodes and anyOf branches
AllowListed(in, out) ==
    \/ ~Truthy(in)
    \/ TypeOf(in) # "object"
    \/ /\ out.t = "object"
       /\ KeySet(out) \subseteq supportedKeys
       /\ KeySet(in) \cap supportedKeys \subseteq KeySet(out)
       /\ KeySet(out) \ KeySet(in) \subseteq {"required", "additionalProperties"}
       /\ \A key \in PassedThrough : Get(out, key) = Get(in, key)
       /\ (Get(out, "type") = Str("object") /\ Truthy(Get(out, "properties"))) =>
              AllowListedEach(ObjectEntries(Get(in, "properties")),
                              ObjectEntries(Get(out, "properties")))
       /\ (Get(out, "type") = Str("array") /\ Truthy(Get(out, "items"))) =>
              AllowListed(Get(in, "items"), Get(out, "items"))
       /\ Truthy(Get(out, "anyOf")) =>
              AllowListedEach(ObjectEntries(Get(in, "anyOf")),
                              ObjectEntries(Get(out, "anyOf")))

\* C13: the keys of the normal form of an object-shaped schema are within
\* the allow-list, every other key of the schema is dropped, at the root and
\* at every node reached through property values, items of array-typed
\* nodes and anyOf branches; description, enum, const, oneOf, $ref and $defs
\* have the values they had in the input
OnlyAllowListedKeys ==
    (strict # NotCalled /\ ~IsThrown(strict)) => AllowListed(schema, strict)

\* a schema of full height: minProperties is dropped at the root, maximum
\* and minItems one level down and minimum two levels down, where the
\* description stays
OnlyAllowListedKeysWitness ==
    /\ nesting = 3
    /\ schema = Obj(<< <<"required", Arr(<<Str("z")>>)>>,
                       <<"additionalProperties", Bool(TRUE)>>,
                       <<"minProperties", Num(1)>>,
                       <<"properties",
                         O2("b", Sibling,
                            "a", O3("type", Str("array"), "minItems", Num(1),
                                    "items", O3("type", Str("integer"),
                                                "minimum", Num(0),
                                                "description", Str("n"))))>>,
                       <<"type", Str("object")>> >>)
    /\ strict = Obj(<< <<"required", Arr(<<Str("b"), Str("a")>>)>>,
                       <<"additionalProperties", Bool(FALSE)>>,
                       <<"properties",
                         O2("b", Obj(<< <<"type", Str("integer")>> >>),
                            "a", O2("type", Str("array"),
                                    "items", O2("type", Str("integer"),
                                                "description", Str("n"))))>>,
                       <<"type", Str("object")>> >>)

RECURSIVE StrictNode(_)

\* every value of the entries is a strict node
StrictNodes(entries) == \A i \in 1..Len(entries) : StrictNode(entries[i][2])

\* the names listed by a required member
RequiredNames(required) ==
    IF required.t # "array" THEN {}
    ELSE {required.es[i].s : i \in {j \in 1..Len(required.es) : required.es[j].t = "string"}}

\* a schema node and every schema under it, through properties, items,
\* anyOf, oneOf and $defs: a node of type object forbids additional
\* properties and lists every one of its properties as required
StrictNode(node) ==
    \/ node.t # "object"
    \/ /\ Get(node, "type") = Str("object") =>
              /\ Get(node, "additionalProperties") = Bool(FALSE)
              /\ KeySet(Get(node, "properties")) \subseteq RequiredNames(Get(node, "required"))
       /\ StrictNodes(ObjectEntries(Get(node, "properties")))
       /\ StrictNode(Get(node, "items"))
       /\ StrictNodes(ObjectEntries(Get(node, "anyOf")))
       /\ StrictNodes(ObjectEntries(Get(node, "oneOf")))
       /\ StrictNodes(ObjectEntries(Get(node, "$defs")))

\* C17: the schema prepareSchemaForStrictMode produces meets the strict-mode
\* requirements of its documentation for every input schema: every node of
\* type object anywhere in the output has additionalProperties false and
\* every property of every object node is listed in the required of the node
StrictModeEverywhere ==
    (strict # NotCalled /\ ~IsThrown(strict)) => StrictNode(strict)

(***************************************************************************)
(* Further properties of the renderer, under SpecRender                    *)
(***************************************************************************)
\* one pass over s from position i on: the token of a key of the bindings
\* becomes the text of the bound value as it is, tokens within that text
\* included; any other token becomes what the renderer makes of that token
\* alone; the scan goes on after the token in s
RECURSIVE OnePass(_, _, _)
OnePass(s, i, bindings) ==
    IF i > Len(s) THEN ""
    ELSE IF ~TokenAt(s, i) THEN At(s, i) \o OnePass(s, i + 1, bindings)
    ELSE (IF HasOwn(bindings, TokenIdentifier(s, i))
          THEN BoundText(Get(bindings, TokenIdentifier(s, i)))
          ELSE renderTemplate(TokenText(s, i), bindings).s)
         \o OnePass(s, ClosingStart(s, i) + 2, bindings)

\* C20: renderTemplate substitutes in a single left-to-right pass over the
\* body: the text inserted for a bound value is not scanned again, so a
\* placeholder token within the text of a bound value, even one of another
\* bound key, is in the output as written
RenderIsSinglePass ==
    rendered # NotCalled => rendered = Str(OnePass(template, 1, data))

\* x is bound to the text of a token of y and y is bound too: the token of x
\* gives the token of y as written, the token of y in the body gives the
\* value of y
RenderIsSinglePassWitness ==
    /\ template = "{{.x}}a and {{ .y\n}}"
    /\ Get(data, "x") = Str("{{ .y\n}}")
    /\ Get(data, "y") = Arr(<<Num(1), Num(2)>>)
    /\ rendered = Str("{{ .y\n}}a and [1,2]")

(***************************************************************************)
(* Further properties of the engine, under Spec                            *)
(***************************************************************************)
\* the model identifiers of the requests a run has sent
ModelsUsed(r) == {r.sent[n].model : n \in 1..Len(r.sent)}

\* C19: options do not propagate to nested runs: a run started by a tool
\* call uses the default options, model gpt-4o-mini and verbose off, whatever
\* options the enclosing run was given: all its requests name gpt-4o-mini and
\* it emits no diagnostic line; the requests of a top-level run name the
\* model its caller gave, or the default
NestedRunsUseDefaultOptions ==
    \A i \in DOMAIN runs :
        IF runs[i].parent # 0
        THEN /\ ModelsUsed(runs[i]) \subseteq {"gpt-4o-mini"}
             /\ runs[i].logged = 0
        ELSE /\ ModelsUsed(runs[i]) \subseteq
                    {IF Get(runs[i].options, "model").t = "string"
                     THEN Get(runs[i].options, "model").s
                     ELSE "gpt-4o-mini"}
             /\ runs[i].logged > 0 => Get(runs[i].options, "verbose") = Bool(TRUE)

\* a verbose top-level run with model gpt-4o has sent its request and
\* printed its diagnostics; the run of its tool call has sent a request that
\* names gpt-4o-mini, has returned and has printed nothing
NestedRunsUseDefaultOptionsWitness ==
    \E i, c \in DOMAIN runs :
        /\ runs[i].parent = 0
        /\ Get(runs[i].options, "verbose") = Bool(TRUE)
        /\ ModelsUsed(runs[i]) = {"gpt-4o"}
        /\ runs[i].logged = 4
        /\ runs[c].parent = i
        /\ ModelsUsed(runs[c]) = {"gpt-4o-mini"}
        /\ runs[c].pc = "returned"
        /\ runs[c].logged = 0

\* the tool call run r is about to execute names r's own program, which is
\* among the programs its imports load, with arguments that are a JSON object
CallsItself(r) ==
    /\ r.pc = "calls"
    /\ CurrentCall(r).function.name = r.program.name
    /\ r.program.name \in ImportNames(r.program)
    /\ JSONParse(CurrentCall(r).function.arguments, 217).t = "object"

\* the runs of the chain from run i up to the top-level run
RECURSIVE Chain(_, _)
Chain(rs, i) == IF rs[i].parent = 0 THEN {i} ELSE {i} \union Chain(rs, rs[i].parent)

\* executing a tool call by which a program calls itself does one thing: a
\* further run of the same program is started, nested in the calling run,
\* with a conversation and an iteration budget of its own, and the calling
\* run waits for it; no error is raised
SelfCallNests ==
    \A i \in DOMAIN runs :
        (CallsItself(runs[i]) /\ runs'[i] # runs[i]) =>
            /\ Len(runs') = Len(runs) + 1
            /\ runs'[i] = [runs[i] EXCEPT !.pc = "waiting", !.child = Len(runs')]
            /\ runs'[Len(runs')].parent = i
            /\ runs'[Len(runs')].program = runs[i].program
            /\ runs'[Len(runs')].pc = "loop"
            /\ runs'[Len(runs')].maxIterations = MaxIterations
            /\ Len(runs'[Len(runs')].messages) = 2

\* C18: there is no import-cycle detection: when a program imports itself
\* and the provider answers with a tool call to it, the run starts a further
\* nested run and no cycle error is raised, at whatever depth the calling
\* run is itself nested
NoImportCycleDetection == [][SelfCallNests]_vars

\* three runs of the self-importing program are in flight, each nested in
\* the one before, the innermost with its request outstanding
NoImportCycleDetectionWitness ==
    \E i \in DOMAIN runs :
        /\ Cardinality(Chain(runs, i)) = 3
        /\ runs[i].pc = "awaiting"
        /\ \A j \in Chain(runs, i) :
               /\ runs[j].program.name = "loop"
               /\ ~Finished(runs[j])
               /\ j # i => (runs[j].pc = "waiting" /\ CallsItself([runs[j] EXCEPT !.pc = "calls"]))

\* a finished run has exactly one outcome: a returned result and no error,
\* or an error, the iteration limit or another one, and no result
OneOutcome ==
    \A i \in DOMAIN runs :
        /\ runs[i].pc = "returned" =>
               (runs[i].result # Undefined /\ runs[i].error = Undefined)
        /\ runs[i].pc = "failed" =>
               (IsThrown(runs[i].error) /\ runs[i].result = Undefined)

\* a finished run stays as it finished
StaysFinished ==
    \A i \in DOMAIN runs : Finished(runs[i]) => runs'[i] = runs[i]

AllFinished == \A i \in DOMAIN runs : Finished(runs[i])

\* C15: when every provider call returns and every response carries
\* finitely many tool calls, every invocation of run, top-level or nested,
\* ends with exactly one outcome, a returned result, the iteration-limit
\* failure or another error, and stays so; none remains in the loop forever
EveryRunTerminates ==
    /\ [] OneOutcome
    /\ [][StaysFinished]_vars
    /\ <>[] AllFinished

\* a top-level run has ended at the iteration limit after ten rounds of
\* tool calls, each served by a nested run that returned
EveryRunTerminatesWitness ==
    /\ Len(runs) = 11
    /\ runs[1].pc = "failed"
    /\ runs[1].error = IterationLimitExceeded
    /\ \A c \in 2..11 : runs[c].parent = 1 /\ runs[c].pc = "returned"

(***************************************************************************)
(* Properties of concurrent runs, under SpecConcurrent                     *)
(***************************************************************************)
\* how many responses run r has received: those with tool calls are in its
\* conversation, a final one is its latest
ResponsesReceived(r) ==
    Cardinality(AssistantMessages(r.messages))
    + (IF AnsweredFinally(r) THEN 1 ELSE 0)

\* every run counts its own rounds only and talks in its own conversation:
\* the remaining iterations are 10 less the requests the run itself has
\* sent (and one less when its loop has ended at the limit), the requests
\* sent are the responses received and the one outstanding, and the
\* conversation starts with the system message of the run's program and
\* the prompt rendered from the run's input
OwnBudget ==
    \A i \in DOMAIN runs :
        /\ runs[i].maxIterations
               = MaxIterations - Len(runs[i].sent)
                 - (IF FailedInLoop(runs[i]) /\ runs[i].error = IterationLimitExceeded
                    THEN 1 ELSE 0)
        /\ Len(runs[i].sent)
               = ResponsesReceived(runs[i]) + (IF runs[i].pc = "awaiting" THEN 1 ELSE 0)
        /\ runs[i].messages # <<>> =>
               /\ runs[i].messages[1] = SystemMessage(runs[i].program)
               /\ runs[i].messages[2]
                      = [role |-> "user",
                         content |-> renderTemplate(runs[i].program.body, runs[i].input).s]
               /\ \A n \in 1..Len(runs[i].sent) :
                      IsPrefix(runs[i].sent[n].messages, runs[i].messages)

\* what message m, appended to the conversation of run i in a step, is: the
\* response run i was waiting for, or the tool message with the result of
\* the nested run that run i was waiting for
OwnMessage(i, m) ==
    IF m.role = "assistant"
    THEN /\ runs[i].pc = "awaiting"
         /\ m = runs'[i].choice
    ELSE /\ m.role = "tool"
         /\ runs[i].pc = "waiting"
         /\ runs[runs[i].child].parent = i
         /\ runs[runs[i].child].pc = "returned"
         /\ m.tool_call_id = runs[runs[i].child].forCall
         /\ m.content = JSONStringify(runs[runs[i].child].result).s

\* a step changes one run at most, never what it was invoked with, and adds
\* to its conversation at most one message, its own; a run that starts is
\* the only one, is top-level or nested in the run that changed, and has a
\* budget and a conversation of its own
OwnConversation ==
    /\ \A i \in DOMAIN runs :
           /\ runs'[i].program = runs[i].program
           /\ runs'[i].input = runs[i].input
           /\ runs'[i].options = runs[i].options
           /\ runs'[i].parent = runs[i].parent
           /\ runs'[i].forCall = runs[i].forCall
           /\ \/ runs'[i].messages = runs[i].messages
              \/ /\ Len(runs'[i].messages) = Len(runs[i].messages) + 1
                 /\ IsPrefix(runs[i].messages, runs'[i].messages)
                 /\ OwnMessage(i, runs'[i].messages[Len(runs'[i].messages)])
           /\ runs'[i] # runs[i] =>
                  \A j \in DOMAIN runs : j # i => runs'[j] = runs[j]
    /\ Len(runs') \in {Len(runs), Len(runs) + 1}
    /\ Len(runs') = Len(runs) + 1 =>
           /\ runs'[Len(runs')].maxIterations = MaxIterations
           /\ runs'[Len(runs')].sent = <<>>
           /\ Len(runs'[Len(runs')].messages) \in {0, 2}
           /\ \/ /\ runs'[Len(runs')].parent = 0
                 /\ \A j \in DOMAIN runs : runs'[j] = runs[j]
              \/ /\ runs'[Len(runs')].parent \in DOMAIN runs
                 /\ runs[runs'[Len(runs')].parent].pc = "calls"
                 /\ runs'[runs'[Len(runs')].parent].child = Len(runs')
                 /\ runs'[Len(runs')].forCall
                        = CurrentCall(runs[runs'[Len(runs')].parent]).id

\* C16: run invocations share no mutable state: with two independent runs
\* interleaved at their provider round-trips, and between a nested run and
\* its parent, each run has its own conversation and its own budget of 10
\* iterations, holds no message of another run, and a nested run changes the
\* conversation of its parent only by the tool message with its result
RunsShareNothing == [] OwnBudget /\ [][OwnConversation]_vars

\* two top-level runs have requests outstanding at once: one has made a
\* round of tool calls that its nested run served, the other is at its
\* first request
RunsShareNothingWitness ==
    \E a, b \in DOMAIN runs :
        /\ runs[a].parent = 0 /\ runs[b].parent = 0
        /\ runs[a].pc = "awaiting" /\ runs[b].pc = "awaiting"
        /\ Len(runs[a].messages) = 4 /\ runs[a].maxIterations = 8
        /\ Len(runs[b].messages) = 2 /\ runs[b].maxIterations = 9
        /\ \E c \in DOMAIN runs : runs[c].parent = a /\ runs[c].pc = "returned" /\ b < c

(***************************************************************************)
(* Properties of the command line, under SpecCli                           *)
(***************************************************************************)
\* whether field is one of the keys of the input the command was given
IsKeyOf(field, input) ==
    \E i \in 1..Len(ObjectKeys(input)) : ObjectKeys(input)[i] = field

\* the field names the input schema of a program lists as required
RequiredList(program) ==
    IF Get(program.input, "required").t = "array"
    THEN FieldsOf(Get(program.input, "required"))
    ELSE <<>>

\* a required field of the program in hand is not a key of the input
RequiredFieldMissing ==
    \E i \in 1..Len(RequiredList(cli.prog)) :
        ~IsKeyOf(RequiredList(cli.prog)[i], cli.input)

\* the calls of run made by the command itself
CommandRuns == {i \in DOMAIN runs : runs[i].parent = 0}

\* C14: once the run command has parsed the program and the input, a
\* required field that is not a key of the input makes the command write an
\* error and exit with a non-zero code without having called run, so that no
\* request goes to the provider; and the command calls run, exactly once,
\* only when every required field is a key of the input
RequiredFieldsPreChecked ==
    cli.input.t # "undefined" =>
        IF RequiredFieldMissing
        THEN /\ cli.pc = "exited" /\ cli.code # 0 /\ cli.stderr # <<>>
             /\ runs = <<>>
        ELSE Cardinality(CommandRuns) = 1

====
